---- MODULE Spec2Model ----
(***************************************************************************)
(* A model of the YomisubAPI language kernel: the verb conjugation engine  *)
(* (services/verb.py), the grammar-phrase matcher                          *)
(* (services/conjugation/phrases.py) and the sentence pipelines            *)
(* (services/analysis.py).                                                 *)
(*                                                                         *)
(* Text.  A Python str is modelled as a sequence of characters; every      *)
(* character (one kana or one kanji) is one element, written in romaji:    *)
(* "ka" is hiragana ka, "xtsu" the small tsu, "xya" the small ya, "n" the  *)
(* moraic n, and an upper-case word is one kanji ("EAT" is the kanji of    *)
(* taberu, "COME" the kanji of kuru).  len(), slicing, startswith and      *)
(* endswith are then Len, SubSeq and prefix/suffix tests on sequences.     *)
(*                                                                         *)
(* Results.  A Python call either returns or raises.  A result is the      *)
(* record [err, out]: err = "" and out the returned value, or err the      *)
(* exception's class and out empty.                                        *)
(***************************************************************************)
EXTENDS Integers, Sequences, FiniteSets, TLC

VARIABLES
    \* the engine driver
    verb,       \* engine input: the dictionary form
    type2,      \* engine input: the ichidan flag
    auxs,       \* engine input: the auxiliary chain
    conj,       \* engine input: the terminal conjugation
    fwd,        \* result of conjugate_auxiliaries on the input, or NoResult
    given,      \* the surface handed to deconjugate_verb
    depth,      \* the max_aux_depth handed to deconjugate_verb
    hits,       \* result of deconjugate_verb, or NoResult
    vpc,        \* position of the engine driver: "input", "forward", "done"
    \* the matcher driver
    segments,   \* the morphemes handed to try_match_compound_phrase
    start_idx,  \* the position handed to it (from 1)
    matched,    \* what it returned
    mpc,        \* position of the matcher driver: "input", "done"
    \* the sentence pipeline
    view,       \* the view serving the current request
    morphemes,  \* the segmenter's morphemes of the request's text
    i,          \* the loop's position (from 1)
    seen_bases, \* the dictionary forms already emitted in this request
    consumed_indices,   \* analyze_simple's set of grouped positions
    tokens,     \* the tokens emitted so far in this request
    spans,      \* the positions [from, to) each iteration so far went over
    details,    \* outcome of the dictionary lookups of the latest iteration
    probe,      \* outcome of the conjugation probe of the latest iteration
    ppc,        \* position of the request: "loop", "done", "failed"
    deep,       \* what deconjugate_word returned or raised, or NoDeep
    requests,   \* number of requests taken so far
    answered,   \* the finished requests, each with its response
    \* the dictionary object
    _index_kanji,       \* general entries by kanji form
    _index_kana,        \* general entries by kana form
    _index_names_kanji, \* name entries by kanji form
    _index_names_kana,  \* name entries by kana form
    _loaded,            \* what is_loaded reports
    general_file,       \* the local general dictionary file
    names_file,         \* the local names dictionary file
    asked,              \* the latest lookup call
    answer,             \* what it returned
    dpc,                \* position of the dictionary's user
    \* the callers of get_instance
    analyzer_cache,     \* the lru_cache of JapaneseAnalyzer.get_instance
    jmdict_cache,       \* the lru_cache of JMDictionary.get_instance
    tpc,                \* each caller's position
    got,                \* the instances each caller holds
    built,              \* the dictionaries constructed so far
    \* the callers of the hint generator and of the class heuristic
    base_meaning,       \* the gloss handed to generate_translation_hint
    hint_auxiliaries,   \* the auxiliary chain handed to it
    hint_conjugation,   \* the terminal conjugation handed to it
    hint_type2,         \* the class flag handed to it
    hint,               \* what it returned or raised, or NoResult
    lemma,              \* the lemma handed to the class heuristic
    guess,              \* what its two implementations returned
    hpc                 \* position of this caller

engineVars == <<verb, type2, auxs, conj, fwd, given, depth, hits, vpc>>

matcherVars == <<segments, start_idx, matched, mpc>>

pipelineVars ==
    <<view, morphemes, i, seen_bases, consumed_indices, tokens, spans, details,
      probe, ppc, deep, requests, answered>>

dictVars ==
    <<_index_kanji, _index_kana, _index_names_kanji, _index_names_kana, _loaded,
      general_file, names_file, asked, answer, dpc>>

instanceVars == <<analyzer_cache, jmdict_cache, tpc, got, built>>

helperVars ==
    <<base_meaning, hint_auxiliaries, hint_conjugation, hint_type2, hint, lemma,
      guess, hpc>>

vars == <<engineVars, matcherVars, pipelineVars, dictVars, instanceVars, helperVars>>

----------------------------------------------------------------------------
(* Python values *)

Ok(v) == [err |-> "", out |-> v]

Raise(e) == [err |-> e, out |-> <<>>]

NoResult == [err |-> "not called", out |-> <<>>]

IsOk(r) == r.err = ""

Raised(r) == r.err \notin {"", "not called"}

\* s[:-k]
DropLast(s, k) == IF Len(s) <= k THEN <<>> ELSE SubSeq(s, 1, Len(s) - k)

\* s.endswith(suf)
EndsWith(s, suf) ==
    /\ Len(suf) <= Len(s)
    /\ SubSeq(s, Len(s) - Len(suf) + 1, Len(s)) = suf

\* s.startswith(pre)
StartsWith(s, pre) ==
    /\ Len(pre) <= Len(s)
    /\ SubSeq(s, 1, Len(pre)) = pre

\* x in list
InList(x, list) == \E k \in 1..Len(list) : list[k] = x

\* [f(x) for x in list] where f appends a suffix
EachPlus(list, suf) == [k \in 1..Len(list) |-> list[k] \o suf]

\* [pre + x for x in list]
PlusEach(pre, list) == [k \in 1..Len(list) |-> pre \o list[k]]

----------------------------------------------------------------------------
(* verb.py: the enumerations, in declaration order *)

ConjugationEnum ==
    << "NEGATIVE", "CONJUNCTIVE", "DICTIONARY", "CONDITIONAL", "IMPERATIVE",
       "VOLITIONAL", "TE", "TA", "TARA", "TARI", "ZU", "NU" >>

AuxiliaryEnum ==
    << "POTENTIAL", "MASU", "NAI", "TAI", "TAGARU", "HOSHII", "RASHII",
       "SOUDA_HEARSAY", "SOUDA_CONJECTURE",
       "SERU_SASERU", "SHORTENED_CAUSATIVE", "RERU_RARERU",
       "CAUSATIVE_PASSIVE", "SHORTENED_CAUSATIVE_PASSIVE",
       "AGERU", "SASHIAGERU", "YARU", "MORAU", "ITADAKU", "KURERU",
       "KUDASARU",
       "TE_IRU", "TE_ARU", "MIRU", "IKU", "KURU", "OKU", "SHIMAU", "TE_ORU",
       "SUGIRU", "YASUI", "NIKUI",
       "HAJIMERU", "OWARU", "TSUZUKERU", "DASU",
       "GARU", "SOU_APPEARANCE" >>

Range(seq) == {seq[k] : k \in 1..Len(seq)}

Conjugation == Range(ConjugationEnum)

Auxiliary == Range(AuxiliaryEnum)

\* position of x in an enumeration (list(Enum).index(x))
IndexIn(seq, x) == CHOOSE k \in 1..Len(seq) : seq[k] = x

----------------------------------------------------------------------------
(* verb.py: kana tables *)

_HIRAGANA_TABLE ==
    [ u   |-> <<"wa", "i", "u", "e", "o">>,
      ku  |-> <<"ka", "ki", "ku", "ke", "ko">>,
      gu  |-> <<"ga", "gi", "gu", "ge", "go">>,
      su  |-> <<"sa", "shi", "su", "se", "so">>,
      zu  |-> <<"za", "ji", "zu", "ze", "zo">>,
      tsu |-> <<"ta", "chi", "tsu", "te", "to">>,
      dzu |-> <<"da", "dji", "dzu", "de", "do">>,
      nu  |-> <<"na", "ni", "nu", "ne", "no">>,
      fu  |-> <<"ha", "hi", "fu", "he", "ho">>,
      bu  |-> <<"ba", "bi", "bu", "be", "bo">>,
      pu  |-> <<"pa", "pi", "pu", "pe", "po">>,
      mu  |-> <<"ma", "mi", "mu", "me", "mo">>,
      ru  |-> <<"ra", "ri", "ru", "re", "ro">> ]

\* index: 0 = a-row ... 4 = o-row
_lookup_hiragana(base, index) ==
    IF base \notin DOMAIN _HIRAGANA_TABLE
    THEN Raise("ValueError")
    ELSE Ok(_HIRAGANA_TABLE[base][index + 1])

\* final char -> [te, ta, tara, tari]
_TE_TA_FORMS ==
    [ ku  |-> << <<"i", "te">>, <<"i", "ta">>, <<"i", "ta", "ra">>, <<"i", "ta", "ri">> >>,
      gu  |-> << <<"i", "de">>, <<"i", "da">>, <<"i", "da", "ra">>, <<"i", "da", "ri">> >>,
      su  |-> << <<"shi", "te">>, <<"shi", "ta">>, <<"shi", "ta", "ra">>, <<"shi", "ta", "ri">> >>,
      nu  |-> << <<"n", "de">>, <<"n", "da">>, <<"n", "da", "ra">>, <<"n", "da", "ri">> >>,
      bu  |-> << <<"n", "de">>, <<"n", "da">>, <<"n", "da", "ra">>, <<"n", "da", "ri">> >>,
      mu  |-> << <<"n", "de">>, <<"n", "da">>, <<"n", "da", "ra">>, <<"n", "da", "ri">> >>,
      tsu |-> << <<"xtsu", "te">>, <<"xtsu", "ta">>, <<"xtsu", "ta", "ra">>, <<"xtsu", "ta", "ri">> >>,
      ru  |-> << <<"xtsu", "te">>, <<"xtsu", "ta">>, <<"xtsu", "ta", "ra">>, <<"xtsu", "ta", "ri">> >>,
      u   |-> << <<"xtsu", "te">>, <<"xtsu", "ta">>, <<"xtsu", "ta", "ra">>, <<"xtsu", "ta", "ri">> >> ]

\* the words the engine names
SURU == <<"su", "ru">>

KURU_KANA == <<"ku", "ru">>

KURU_KANJI == <<"COME", "ru">>

DA == <<"da">>

DESU == <<"de", "su">>

KUDASARU == <<"ku", "da", "sa", "ru">>

ARU == <<"a", "ru">>

GOZARU == <<"go", "za", "ru">>

IRASSHARU == <<"i", "ra", "xtsu", "shi", "xya", "ru">>

IKU_KANJI == <<"GO", "ku">>

IKU_KANA == <<"i", "ku">>

_SPECIAL_CASES(v, c) ==
    CASE v = ARU /\ c = "NEGATIVE" -> Ok(<<>>)
      [] v = GOZARU /\ c = "CONJUNCTIVE" -> Ok(<<"go", "za", "i">>)
      [] v = IRASSHARU /\ c \in {"CONJUNCTIVE", "CONDITIONAL", "IMPERATIVE"} ->
            Ok(<<"i", "ra", "xtsu", "shi", "xya", "i">>)
      [] OTHER -> Raise("KeyError")

_CONJ_TO_INDEX ==
    [ NEGATIVE |-> 0, ZU |-> 0, NU |-> 0, CONJUNCTIVE |-> 1,
      DICTIONARY |-> 2, CONDITIONAL |-> 3, VOLITIONAL |-> 4 ]

----------------------------------------------------------------------------
(* verb.py: forward conjugation without auxiliaries *)

\* kuru, written in kana or with the kanji prefix
_conjugate_kuru(v, c) ==
    LET is_kanji == StartsWith(v, <<"COME">>)
        prefix == IF is_kanji THEN <<"COME">> ELSE <<>>
    IN  CASE c \in {"NEGATIVE", "ZU", "NU"} -> Ok(<< prefix \o <<"ko">> >>)
          [] c = "CONJUNCTIVE" -> Ok(<< prefix \o <<"ki">> >>)
          [] c = "DICTIONARY" -> Ok(<< prefix \o <<"ku", "ru">> >>)
          [] c = "CONDITIONAL" -> Ok(<< prefix \o <<"ku", "re">> >>)
          [] c = "IMPERATIVE" -> Ok(<< prefix \o <<"ko", "i">> >>)
          [] c = "VOLITIONAL" -> Ok(<< prefix \o <<"ko", "yo", "u">> >>)
          [] c = "TE" -> Ok(<< prefix \o <<"ki", "te">> >>)
          [] c = "TA" -> Ok(<< prefix \o <<"ki", "ta">> >>)
          [] c = "TARA" -> Ok(<< prefix \o <<"ki", "ta", "ra">> >>)
          [] c = "TARI" -> Ok(<< prefix \o <<"ki", "ta", "ri">> >>)
          [] OTHER -> Raise("ValueError")

_conjugate_suru(c) ==
    CASE c = "NEGATIVE" -> Ok(<< <<"shi">> >>)
      [] c = "CONJUNCTIVE" -> Ok(<< <<"shi">> >>)
      [] c = "DICTIONARY" -> Ok(<< <<"su", "ru">> >>)
      [] c = "CONDITIONAL" -> Ok(<< <<"su", "re">> >>)
      [] c = "IMPERATIVE" -> Ok(<< <<"shi", "ro">>, <<"se", "yo">> >>)
      [] c = "VOLITIONAL" -> Ok(<< <<"shi", "yo", "u">> >>)
      [] c = "TE" -> Ok(<< <<"shi", "te">> >>)
      [] c = "TA" -> Ok(<< <<"shi", "ta">> >>)
      [] c = "TARA" -> Ok(<< <<"shi", "ta", "ra">> >>)
      [] c = "TARI" -> Ok(<< <<"shi", "ta", "ri">> >>)
      [] c = "ZU" -> Ok(<< <<"se", "zu">> >>)
      [] c = "NU" -> Ok(<< <<"se", "nu">> >>)
      [] OTHER -> Raise("ValueError")

_conjugate_da(c) ==
    CASE c = "NEGATIVE" ->
            Ok(<< <<"de", "na", "i">>, <<"de", "ha", "na", "i">>,
                  <<"ji", "xya", "na", "i">> >>)
      [] c = "DICTIONARY" -> Ok(<< <<"da">> >>)
      [] c = "CONDITIONAL" -> Ok(<< <<"na", "ra">> >>)
      [] c = "TE" -> Ok(<< <<"de">> >>)
      [] c = "TA" -> Ok(<< <<"da", "xtsu", "ta">> >>)
      [] c = "TARA" -> Ok(<< <<"da", "xtsu", "ta", "ra">> >>)
      [] c = "TARI" -> Ok(<< <<"da", "xtsu", "ta", "ri">> >>)
      [] OTHER -> Raise("ValueError")

_conjugate_desu(c) ==
    CASE c = "NEGATIVE" ->
            Ok(<< <<"de", "a", "ri", "ma", "se", "n">>,
                  <<"de", "ha", "a", "ri", "ma", "se", "n">> >>)
      [] c = "DICTIONARY" -> Ok(<< <<"de", "su">> >>)
      [] c = "TE" -> Ok(<< <<"de", "shi", "te">> >>)
      [] c = "TA" -> Ok(<< <<"de", "shi", "ta">> >>)
      [] c = "TARA" -> Ok(<< <<"de", "shi", "ta", "ra">> >>)
      [] c = "TARI" -> Ok(<< <<"de", "shi", "ta", "ri">> >>)
      [] OTHER -> Raise("ValueError")

\* the godan rows of _conjugate_type1: head + the tail's kana in row idx
GodanRow(head, tail, idx) ==
    LET Row(k) == IF IsOk(k) THEN Ok(<< head \o <<k.out>> >>) ELSE k
    IN  IF tail = "u" /\ idx = 0
        THEN Ok(<< head \o <<"wa">> >>)
        ELSE Row(_lookup_hiragana(tail, idx))

\* the te/ta branch of _conjugate_type1
GodanTeTa(v, head, tail, c) ==
    LET te_ta_idx == CASE c = "TE" -> 0 [] c = "TA" -> 1
                       [] c = "TARA" -> 2 [] c = "TARI" -> 3
        lookup_key == IF v \in {IKU_KANJI, IKU_KANA} THEN "tsu" ELSE tail
    IN  IF lookup_key \notin DOMAIN _TE_TA_FORMS
        THEN Raise("ValueError")
        ELSE Ok(<< head \o _TE_TA_FORMS[lookup_key][te_ta_idx + 1] >>)

_conjugate_type1(v, c) ==
    IF v = SURU THEN _conjugate_suru(c)
    ELSE IF v \in {KURU_KANA, KURU_KANJI} THEN _conjugate_kuru(v, c)
    ELSE IF v = DA THEN _conjugate_da(c)
    ELSE IF v = DESU THEN _conjugate_desu(c)
    ELSE IF EndsWith(v, KUDASARU) THEN
        CASE c = "DICTIONARY" -> Ok(<<v>>)
          [] c = "CONJUNCTIVE" -> Ok(<< DropLast(v, 2) \o <<"sa", "i">> >>)
          [] OTHER -> Raise("ValueError")
    ELSE IF IsOk(_SPECIAL_CASES(v, c)) THEN Ok(<< _SPECIAL_CASES(v, c).out >>)
    ELSE IF Len(v) = 0 THEN Raise("IndexError")
    ELSE LET head == DropLast(v, 1)
             tail == v[Len(v)]
         IN  IF c \in DOMAIN _CONJ_TO_INDEX
             THEN GodanRow(head, tail, _CONJ_TO_INDEX[c])
             ELSE IF c = "IMPERATIVE" THEN GodanRow(head, tail, 3)
             ELSE IF c \in {"TE", "TA", "TARA", "TARI"}
                  THEN GodanTeTa(v, head, tail, c)
             ELSE Raise("ValueError")

_conjugate_type2(v, c) ==
    IF v = SURU THEN _conjugate_suru(c)
    ELSE IF v \in {KURU_KANA, KURU_KANJI} THEN _conjugate_kuru(v, c)
    ELSE IF v = DA THEN _conjugate_da(c)
    ELSE IF v = DESU THEN _conjugate_desu(c)
    ELSE LET head == DropLast(v, 1)
         IN  CASE c \in {"NEGATIVE", "ZU", "NU"} -> Ok(<<head>>)
               [] c = "CONJUNCTIVE" -> Ok(<<head>>)
               [] c = "DICTIONARY" -> Ok(<<v>>)
               [] c = "CONDITIONAL" -> Ok(<< head \o <<"re">> >>)
               [] c = "IMPERATIVE" -> Ok(<< head \o <<"ro">>, head \o <<"yo">> >>)
               [] c = "VOLITIONAL" -> Ok(<< head \o <<"yo", "u">> >>)
               [] c = "TE" -> Ok(<< head \o <<"te">> >>)
               [] c = "TA" -> Ok(<< head \o <<"ta">> >>)
               [] c = "TARA" -> Ok(<< head \o <<"ta", "ra">> >>)
               [] c = "TARI" -> Ok(<< head \o <<"ta", "ri">> >>)
               [] OTHER -> Raise("ValueError")

_conjugate_strict(v, c, t2) ==
    IF Len(v) = 0 THEN Raise("IndexError")
    ELSE IF v[Len(v)] = "ru" /\ t2 THEN _conjugate_type2(v, c)
    ELSE _conjugate_type1(v, c)

\* conjugate(): the strict forms, then the first form with its suffix
conjugate(v, c, t2) ==
    LET Extended(result) ==
            IF ~IsOk(result) THEN result
            ELSE IF c \in {"NEGATIVE", "ZU", "NU"} /\ v \notin {DA, DESU}
            THEN CASE c = "NEGATIVE" ->
                        Ok(Append(result.out, result.out[1] \o <<"na", "i">>))
                   [] c = "ZU" -> Ok(Append(result.out, result.out[1] \o <<"zu">>))
                   [] c = "NU" -> Ok(Append(result.out, result.out[1] \o <<"nu">>))
            ELSE IF c = "CONJUNCTIVE"
            THEN Ok(Append(result.out, result.out[1] \o <<"ma", "su">>))
            ELSE IF c = "CONDITIONAL"
            THEN Ok(Append(result.out, result.out[1] \o <<"ba">>))
            ELSE IF c = "VOLITIONAL"
            THEN Ok(Append(result.out, result.out[1] \o <<"u">>))
            ELSE result
    IN  Extended(_conjugate_strict(v, c, t2))

----------------------------------------------------------------------------
(* verb.py: one auxiliary on a verb *)

RECURSIVE Flatten(_)
\* the concatenation of a list of lists
Flatten(lists) ==
    IF Len(lists) = 0 THEN <<>> ELSE Head(lists) \o Flatten(Tail(lists))

\* the first result that raised, if any, else the concatenation of the lists
Collect(results) ==
    IF \E k \in 1..Len(results) : ~IsOk(results[k])
    THEN results[CHOOSE k \in 1..Len(results) :
                    /\ ~IsOk(results[k])
                    /\ \A m \in 1..(k - 1) : IsOk(results[m])]
    ELSE Ok(Flatten([k \in 1..Len(results) |-> results[k].out]))

\* results = []; for v in new_verbs: results.extend(conjugate(v, conj, t2))
ConjugateEach(new_verbs, c, t2) ==
    Collect([k \in 1..Len(new_verbs) |-> conjugate(new_verbs[k], c, t2)])

\* a match statement over the terminal conjugation: base + the case's endings
Endings(base, c, table) ==
    IF c \in DOMAIN table THEN Ok(PlusEach(base, table[c])) ELSE Raise("ValueError")

MasuEndings ==
    [ NEGATIVE |-> << <<"ma", "se", "n">>, <<"ma", "se", "n", "de", "shi", "ta">> >>,
      DICTIONARY |-> << <<"ma", "su">> >>,
      CONDITIONAL |-> << <<"ma", "su", "re", "ba">> >>,
      IMPERATIVE |-> << <<"ma", "se">>, <<"ma", "shi">> >>,
      VOLITIONAL |-> << <<"ma", "shi", "xyo", "u">> >>,
      TE |-> << <<"ma", "shi", "te">> >>,
      TA |-> << <<"ma", "shi", "ta">> >>,
      TARA |-> << <<"ma", "shi", "ta", "ra">> >> ]

NaiEndings ==
    [ NEGATIVE |-> << <<"na", "ku", "ha", "na", "i">> >>,
      CONJUNCTIVE |-> << <<"na", "ku">> >>,
      DICTIONARY |-> << <<"na", "i">> >>,
      CONDITIONAL |-> << <<"na", "ke", "re", "ba">> >>,
      TE |-> << <<"na", "ku", "te">>, <<"na", "i", "de">> >>,
      TA |-> << <<"na", "ka", "xtsu", "ta">> >>,
      TARA |-> << <<"na", "ka", "xtsu", "ta", "ra">> >> ]

TaiEndings ==
    [ NEGATIVE |-> << <<"ta", "ku", "na", "i">> >>,
      CONJUNCTIVE |-> << <<"ta", "ku">> >>,
      DICTIONARY |-> << <<"ta", "i">> >>,
      CONDITIONAL |-> << <<"ta", "ke", "re", "ba">> >>,
      TE |-> << <<"ta", "ku", "te">> >>,
      TA |-> << <<"ta", "ka", "xtsu", "ta">> >>,
      TARA |-> << <<"ta", "ka", "xtsu", "ta", "ra">> >> ]

HoshiiEndings ==
    [ NEGATIVE |-> << <<"ho", "shi", "ku", "na", "i">> >>,
      CONJUNCTIVE |-> << <<"ho", "shi", "ku">> >>,
      DICTIONARY |-> << <<"ho", "shi", "i">> >>,
      CONDITIONAL |-> << <<"ho", "shi", "ke", "re", "ba">> >>,
      TE |-> << <<"ho", "shi", "ku", "te">> >>,
      TA |-> << <<"ho", "shi", "ka", "xtsu", "ta">> >>,
      TARA |-> << <<"ho", "shi", "ka", "xtsu", "ta", "ra">> >> ]

SoudaConjectureEndings ==
    [ DICTIONARY |-> << <<"so", "u", "da">>, <<"so", "u", "de", "su">> >>,
      CONDITIONAL |-> << <<"so", "u", "na", "ra">> >>,
      TA |-> << <<"so", "u", "da", "xtsu", "ta">>, <<"so", "u", "de", "shi", "ta">> >> ]

\* base = conjugate(verb, stem, type2)[0], then the match over conj
OnStem(v, stem, c, t2, table) ==
    LET OnBase(base) ==
            IF ~IsOk(base) THEN base ELSE Endings(base.out[1], c, table)
    IN  OnBase(conjugate(v, stem, t2))

AuxMasu(v, c, t2) == OnStem(v, "CONJUNCTIVE", c, t2, MasuEndings)

AuxNai(v, c, t2) == OnStem(v, "NEGATIVE", c, t2, NaiEndings)

AuxTai(v, c, t2) == OnStem(v, "CONJUNCTIVE", c, t2, TaiEndings)

AuxHoshii(v, c, t2) == OnStem(v, "TE", c, t2, HoshiiEndings)

AuxSoudaConjecture(v, c, t2) ==
    OnStem(v, "CONJUNCTIVE", c, t2, SoudaConjectureEndings)

AuxPotential(v, c, t2) ==
    LET OnConditional(stem) ==
            IF ~IsOk(stem) THEN stem
            ELSE conjugate(stem.out[1] \o <<"ru">>, c, TRUE)
    IN  OnConditional(IF t2 THEN _conjugate_type2(v, "CONDITIONAL")
                            ELSE _conjugate_type1(v, "CONDITIONAL"))

AuxTagaru(v, c, t2) ==
    LET Suffixed(bases, tagaru_conj) ==
            IF ~IsOk(bases) THEN bases
            ELSE IF ~IsOk(tagaru_conj) THEN tagaru_conj
            ELSE Ok(PlusEach(bases.out[1], tagaru_conj.out))
    IN  IF c \in {"CONDITIONAL", "IMPERATIVE", "VOLITIONAL", "TARI"}
        THEN Raise("ValueError")
        ELSE Suffixed(conjugate(v, "CONJUNCTIVE", t2),
                      conjugate(<<"ta", "ga", "ru">>, c, FALSE))

\* the NEGATIVE case calls the NAI auxiliary without the type2 flag
AuxRashii(v, c, t2) ==
    LET OnBases(base1, neg) ==
            LET bases == << base1.out[1], v >>
            IN  IF ~IsOk(base1) THEN base1
                ELSE CASE c = "NEGATIVE" ->
                            IF ~IsOk(neg) THEN neg
                            ELSE Ok(<< neg.out[1] \o <<"ra", "shi", "i">> >>)
                       [] c = "CONJUNCTIVE" ->
                            Ok(EachPlus(bases, <<"ra", "shi", "ku">>))
                       [] c = "DICTIONARY" ->
                            Ok(EachPlus(bases, <<"ra", "shi", "i">>))
                       [] c = "TE" ->
                            Ok(EachPlus(bases, <<"ra", "shi", "ku", "te">>))
                       [] OTHER -> Raise("ValueError")
    IN  OnBases(conjugate(v, "TA", t2), AuxNai(v, "DICTIONARY", FALSE))

AuxSoudaHearsay(v, c, t2) ==
    LET OnPast(base1) ==
            IF ~IsOk(base1) THEN base1
            ELSE IF c = "DICTIONARY"
            THEN Ok(EachPlus(<< base1.out[1], v >>, <<"so", "u", "da">>))
            ELSE Raise("ValueError")
    IN  OnPast(conjugate(v, "TA", t2))

\* the causative verb of SERU_SASERU, before it is conjugated
CausativeVerb(v, t2) ==
    LET OnNegative(stem) ==
            IF ~IsOk(stem) THEN stem
            ELSE IF t2 THEN Ok(stem.out[1] \o <<"sa", "se", "ru">>)
            ELSE Ok(stem.out[1] \o <<"se", "ru">>)
    IN  IF v \in {KURU_KANJI, KURU_KANA}
        THEN Ok((IF v[1] = "COME" THEN <<"COME">> ELSE <<"ko">>)
                   \o <<"sa", "se", "ru">>)
        ELSE IF v = SURU THEN Ok(<<"sa", "se", "ru">>)
        ELSE OnNegative(IF t2 THEN _conjugate_type2(v, "NEGATIVE")
                             ELSE _conjugate_type1(v, "NEGATIVE"))

AuxSeruSaseru(v, c, t2) ==
    LET AsIchidan(new_verb) ==
            IF ~IsOk(new_verb) THEN new_verb
            ELSE conjugate(new_verb.out, c, TRUE)
    IN  IF c \in {"TARA", "TARI"} THEN Raise("ValueError")
        ELSE AsIchidan(CausativeVerb(v, t2))

AuxShortenedCausative(v, c, t2) ==
    LET AsGodan(new_verb) ==
            IF ~IsOk(new_verb) THEN new_verb
            ELSE conjugate(DropLast(new_verb.out, 2) \o <<"su">>, c, FALSE)
    IN  IF c \in {"TARA", "TARI"} THEN Raise("ValueError")
        ELSE AsGodan(CausativeVerb(v, t2))

\* the passive verb of RERU_RARERU, before it is conjugated
PassiveVerb(v, t2) ==
    LET OnStemOf(stem) ==
            IF ~IsOk(stem) THEN stem
            ELSE IF t2 THEN Ok(stem.out[1] \o <<"ra", "re", "ru">>)
            ELSE Ok(stem.out[1] \o <<"re", "ru">>)
    IN  IF v \in {KURU_KANJI, KURU_KANA}
        THEN Ok((IF v[1] = "COME" THEN <<"COME">> ELSE <<"ko">>)
                   \o <<"ra", "re", "ru">>)
        ELSE IF v = SURU THEN Ok(<<"sa", "re", "ru">>)
        ELSE OnStemOf(IF t2 THEN _conjugate_type2(v, "NEGATIVE")
                           ELSE _conjugate_type1(v, "NEGATIVE"))

AuxReruRareru(v, c, t2) ==
    LET AsPassive(new_verb) ==
            IF ~IsOk(new_verb) THEN new_verb
            ELSE conjugate(new_verb.out, c, TRUE)
    IN  IF c \in {"IMPERATIVE", "VOLITIONAL", "TARA", "TARI"}
        THEN Raise("ValueError")
        ELSE AsPassive(PassiveVerb(v, t2))

AuxCausativePassive(v, c, t2) ==
    LET OnCausative(causative) ==
            IF ~IsOk(causative) THEN causative
            ELSE conjugate(causative.out[1] \o <<"ra", "re", "ru">>, c, TRUE)
    IN  OnCausative(AuxSeruSaseru(v, "NEGATIVE", t2))

AuxShortenedCausativePassive(v, c, t2) ==
    LET OnShortened(causative) ==
            IF ~IsOk(causative) THEN causative
            ELSE conjugate(causative.out[1] \o <<"re", "ru">>, c, TRUE)
    IN  OnShortened(AuxShortenedCausative(v, "NEGATIVE", t2))

\* the auxiliaries that attach to the te-form
TeAuxiliaries ==
    { "AGERU", "SASHIAGERU", "YARU", "MORAU", "ITADAKU", "KURERU", "KUDASARU",
      "TE_IRU", "TE_ARU", "MIRU", "IKU", "KURU", "OKU", "TE_ORU" }

endings ==
    [ AGERU |-> << <<"a", "ge", "ru">> >>,
      SASHIAGERU |-> << <<"OFFER", "shi", "UP", "ge", "ru">>,
                        <<"sa", "shi", "a", "ge", "ru">> >>,
      YARU |-> << <<"ya", "ru">> >>,
      MORAU |-> << <<"mo", "ra", "u">> >>,
      ITADAKU |-> << <<"i", "ta", "da", "ku">> >>,
      KURERU |-> << <<"ku", "re", "ru">> >>,
      KUDASARU |-> << <<"ku", "da", "sa", "ru">> >>,
      TE_IRU |-> << <<"i", "ru">>, <<"ru">> >>,
      TE_ARU |-> << <<"a", "ru">> >>,
      MIRU |-> << <<"mi", "ru">> >>,
      IKU |-> << <<"i", "ku">> >>,
      KURU |-> << <<"ku", "ru">> >>,
      OKU |-> << <<"o", "ku">> >>,
      TE_ORU |-> << <<"o", "ru">> >> ]

ending_type2(aux) == aux \in {"AGERU", "SASHIAGERU", "KURERU", "TE_IRU", "MIRU"}

AuxTe(v, aux, c, t2) ==
    LET OnTe(vteR) ==
            LET vte == vteR.out[1]
                plain == PlusEach(vte, endings[aux])
                contracted ==
                    DropLast(vte, 1) \o
                      (IF vte[Len(vte)] = "de" THEN <<"do", "ku">>
                                               ELSE <<"to", "ku">>)
                new_verbs == IF aux = "OKU" THEN Append(plain, contracted)
                             ELSE IF aux = "IKU" THEN Append(plain, vte \o <<"ku">>)
                             ELSE plain
                WithKuru(kuru) ==
                    IF ~IsOk(kuru) THEN kuru ELSE Ok(PlusEach(vte, kuru.out))
            IN  IF ~IsOk(vteR) THEN vteR
                ELSE IF aux = "KURU" THEN WithKuru(conjugate(KURU_KANA, c, FALSE))
                ELSE IF aux = "OKU" /\ Len(vte) = 0 THEN Raise("IndexError")
                ELSE ConjugateEach(new_verbs, c, ending_type2(aux))
    IN  OnTe(conjugate(v, "TE", t2))

AuxShimau(v, c, t2) ==
    LET OnTeForm(vteR) ==
            LET vte == vteR.out[1]
                no_te == DropLast(vte, 1)
                contractions ==
                    IF EndsWith(vte, <<"te">>)
                    THEN << no_te \o <<"chi", "xya", "u">>,
                            no_te \o <<"chi", "ma", "u">> >>
                    ELSE << no_te \o <<"ji", "ma", "u">>,
                            no_te \o <<"dji", "ma", "u">> >>
            IN  IF ~IsOk(vteR) THEN vteR
                ELSE ConjugateEach(<< vte \o <<"shi", "ma", "u">> >> \o contractions,
                                   c, FALSE)
    IN  OnTeForm(conjugate(v, "TE", t2))

_conjugate_auxiliary(v, aux, c, t2) ==
    CASE aux = "POTENTIAL" -> AuxPotential(v, c, t2)
      [] aux = "MASU" -> AuxMasu(v, c, t2)
      [] aux = "NAI" -> AuxNai(v, c, t2)
      [] aux = "TAI" -> AuxTai(v, c, t2)
      [] aux = "TAGARU" -> AuxTagaru(v, c, t2)
      [] aux = "HOSHII" -> AuxHoshii(v, c, t2)
      [] aux = "RASHII" -> AuxRashii(v, c, t2)
      [] aux = "SOUDA_HEARSAY" -> AuxSoudaHearsay(v, c, t2)
      [] aux = "SOUDA_CONJECTURE" -> AuxSoudaConjecture(v, c, t2)
      [] aux = "SERU_SASERU" -> AuxSeruSaseru(v, c, t2)
      [] aux = "SHORTENED_CAUSATIVE" -> AuxShortenedCausative(v, c, t2)
      [] aux = "RERU_RARERU" -> AuxReruRareru(v, c, t2)
      [] aux = "CAUSATIVE_PASSIVE" -> AuxCausativePassive(v, c, t2)
      [] aux = "SHORTENED_CAUSATIVE_PASSIVE" -> AuxShortenedCausativePassive(v, c, t2)
      [] aux \in TeAuxiliaries -> AuxTe(v, aux, c, t2)
      [] aux = "SHIMAU" -> AuxShimau(v, c, t2)
      [] OTHER -> Raise("ValueError")

----------------------------------------------------------------------------
(* verb.py: a chain of auxiliaries *)

\* the auxiliaries that may only end a chain
final_only ==
    { "MASU", "NAI", "TAI", "HOSHII", "RASHII", "SOUDA_CONJECTURE", "SOUDA_HEARSAY" }

\* a validation that lets every auxiliary stand anywhere
MustBeFinalNever(aux, at, n) == FALSE

\* the validation of step at (1-based) of a chain of n auxiliaries
MustBeFinal(aux, at, n) == at # n /\ aux \in final_only

\* the auxiliaries after which the compound conjugates as ichidan
Type2Makers ==
    { "POTENTIAL", "SERU_SASERU", "RERU_RARERU", "CAUSATIVE_PASSIVE",
      "SHORTENED_CAUSATIVE_PASSIVE", "AGERU", "SASHIAGERU", "KURERU", "MIRU",
      "TE_IRU" }

\* the copula branch: only NAI, alone, with TA, TE or CONJUNCTIVE
CopulaAuxiliaries(v, auxiliaries, final_conj) ==
    IF Len(auxiliaries) = 1 /\ auxiliaries[1] = "NAI"
    THEN IF final_conj = "TA"
         THEN IF v = DA
              THEN Ok(<< <<"de", "ha", "na", "ka", "xtsu", "ta">>,
                         <<"ji", "xya", "na", "ka", "xtsu", "ta">> >>)
              ELSE Ok(<< <<"de", "ha", "a", "ri", "ma", "se", "n", "de", "shi", "ta">>,
                         <<"de", "a", "ri", "ma", "se", "n", "de", "shi", "ta">> >>)
         ELSE IF final_conj = "TE" /\ v = DA
         THEN Ok(<< <<"ji", "xya", "na", "ku", "te">> >>)
         ELSE IF final_conj = "CONJUNCTIVE" /\ v = DA
         THEN Ok(<< <<"ji", "xya", "na", "ku">> >>)
         ELSE Raise("ValueError")
    ELSE Raise("ValueError")

\* [head + tail for head in heads for tail in tails]
Cross(heads, tails) ==
    Flatten([h \in 1..Len(heads) |-> PlusEach(heads[h], tails)])

\* one iteration of the loop: the verbs after auxiliary at
ChainStep(verbs, aux, prev_aux, c, current_type2) ==
    LET after_kuru == prev_aux = "KURU"
        stems == IF after_kuru THEN << KURU_KANA >> ELSE verbs
        flag == IF after_kuru THEN FALSE ELSE current_type2
        heads == [k \in 1..Len(verbs) |-> DropLast(verbs[k], 2)]
        Joined(results) ==
            IF ~after_kuru THEN Collect(results)
            ELSE IF ~IsOk(results[1]) THEN results[1]
            ELSE Ok(Cross(heads, results[1].out))
    IN  Joined([k \in 1..Len(stems) |->
                  _conjugate_auxiliary(stems[k], aux, c, flag)])

RECURSIVE ChainLoop(_, _, _, _, _)
\* the for loop of conjugate_auxiliaries from step at on
ChainLoop(verbs, current_type2, at, auxiliaries, final_conj) ==
    LET aux == auxiliaries[at]
        c == IF at = Len(auxiliaries) THEN final_conj ELSE "DICTIONARY"
        prev_aux == IF at > 1 THEN auxiliaries[at - 1] ELSE "None"
        Continued(step) ==
            IF ~IsOk(step) THEN step
            ELSE ChainLoop(step.out, aux \in Type2Makers, at + 1,
                           auxiliaries, final_conj)
    IN  IF at > Len(auxiliaries) THEN Ok(verbs)
        ELSE IF MustBeFinal(aux, at, Len(auxiliaries)) THEN Raise("ValueError")
        ELSE Continued(ChainStep(verbs, aux, prev_aux, c, current_type2))

conjugate_auxiliaries(v, auxiliaries, final_conj, t2) ==
    IF Len(auxiliaries) = 0 THEN conjugate(v, final_conj, t2)
    ELSE IF v \in {DA, DESU} THEN CopulaAuxiliaries(v, auxiliaries, final_conj)
    ELSE ChainLoop(<<v>>, t2, 1, auxiliaries, final_conj)

----------------------------------------------------------------------------
(* verb.py: deconjugate_verb *)

penultimates ==
    << "AGERU", "SASHIAGERU", "YARU", "MORAU", "ITADAKU", "KURERU",
       "KUDASARU", "MIRU", "IKU", "KURU", "OKU", "SHIMAU",
       "TE_IRU", "TE_ARU", "TE_ORU", "POTENTIAL", "RERU_RARERU", "SERU_SASERU" >>

depth2_finals ==
    << "MASU", "SOUDA_CONJECTURE", "SOUDA_HEARSAY", "TE_IRU", "TAI", "NAI",
       "YARU", "MIRU", "OKU", "SHIMAU" >>

antepenultimates == << "SERU_SASERU", "RERU_RARERU", "ITADAKU" >>

depth3_finals == << "MASU" >>

NConj == Len(ConjugationEnum)

\* the candidates of each search loop, in the order the loops visit them
Depth0Chains ==
    [k \in 1..NConj |-> [auxiliaries |-> <<>>, conjugation |-> ConjugationEnum[k]]]

Depth1Chains ==
    [k \in 1..(Len(AuxiliaryEnum) * NConj) |->
        [auxiliaries |-> << AuxiliaryEnum[((k - 1) \div NConj) + 1] >>,
         conjugation |-> ConjugationEnum[((k - 1) % NConj) + 1]]]

\* the pairs with the closing auxiliary in the outer loop and in first place
Depth2ChainsFinalFirst ==
    [k \in 1..(Len(penultimates) * Len(depth2_finals) * NConj) |->
        [auxiliaries |->
            << depth2_finals[((k - 1) \div (Len(penultimates) * NConj)) + 1],
               penultimates[(((k - 1) \div NConj) % Len(penultimates)) + 1] >>,
         conjugation |-> ConjugationEnum[((k - 1) % NConj) + 1]]]

Depth2Chains ==
    [k \in 1..(Len(penultimates) * Len(depth2_finals) * NConj) |->
        [auxiliaries |->
            << penultimates[((k - 1) \div (Len(depth2_finals) * NConj)) + 1],
               depth2_finals[(((k - 1) \div NConj) % Len(depth2_finals)) + 1] >>,
         conjugation |-> ConjugationEnum[((k - 1) % NConj) + 1]]]

Depth3Chains ==
    [k \in 1..(Len(antepenultimates) * Len(penultimates) * Len(depth3_finals) * NConj) |->
        [auxiliaries |->
            << antepenultimates[((k - 1) \div (Len(penultimates) * Len(depth3_finals) * NConj)) + 1],
               penultimates[(((k - 1) \div (Len(depth3_finals) * NConj)) % Len(penultimates)) + 1],
               depth3_finals[(((k - 1) \div NConj) % Len(depth3_finals)) + 1] >>,
         conjugation |-> ConjugationEnum[((k - 1) % NConj) + 1]]]

\* what each depth's loop body calls to produce the surfaces of a candidate
Produce(d, cand, t2) ==
    IF Len(cand.auxiliaries) = 0 THEN conjugate(d, cand.conjugation, t2)
    ELSE IF Len(cand.auxiliaries) = 1
    THEN _conjugate_auxiliary(d, cand.auxiliaries[1], cand.conjugation, t2)
    ELSE conjugate_auxiliaries(d, cand.auxiliaries, cand.conjugation, t2)

\* one depth's loops: each candidate with the result of its try block
Tried(conjugated, d, t2, chains) ==
    [k \in 1..Len(chains) |->
        [auxiliaries |-> chains[k].auxiliaries,
         conjugation |-> chains[k].conjugation,
         result |-> Produce(d, chains[k], t2)]]

IsHit(conjugated, tried) == IsOk(tried.result) /\ InList(conjugated, tried.result.out)

\* except ValueError: pass -- any other exception leaves the search
Escapes(tried) == tried.result.err = "IndexError"

\* a search that visits the single auxiliaries before the bare conjugations
SearchOrderAuxiliariesFirst(max_aux_depth) ==
    (IF max_aux_depth < 1 THEN <<>> ELSE Depth1Chains)
      \o Depth0Chains
      \o (IF max_aux_depth < 2 THEN <<>> ELSE Depth2Chains)
      \o (IF max_aux_depth < 3 THEN <<>> ELSE Depth3Chains)

\* the candidate lists searched for a depth bound, in search order
SearchOrder(max_aux_depth) ==
    Depth0Chains
      \o (IF max_aux_depth < 1 THEN <<>> ELSE Depth1Chains)
      \o (IF max_aux_depth < 2 THEN <<>> ELSE Depth2Chains)
      \o (IF max_aux_depth < 3 THEN <<>> ELSE Depth3Chains)

\* a hit as the caller sees it
VerbDeconjugated(tried) ==
    [auxiliaries |-> tried.auxiliaries,
     conjugation |-> tried.conjugation,
     result |-> tried.result.out]

deconjugate_verb(conjugated, dictionary_form, t2, max_aux_depth) ==
    LET Returned(kept) ==
            IF \E k \in 1..Len(kept) : Escapes(kept[k]) THEN Raise("IndexError")
            ELSE Ok([k \in 1..Len(kept) |-> VerbDeconjugated(kept[k])])
    IN  Returned(SelectSeq(Tried(conjugated, dictionary_form, t2,
                                 SearchOrder(max_aux_depth)),
                           LAMBDA t : IsHit(conjugated, t) \/ Escapes(t)))

----------------------------------------------------------------------------
(* The engine driver: a caller of verb.py.  It chooses a verb, a class     *)
(* flag, a terminal conjugation and an auxiliary chain, calls the forward  *)
(* engine, and may hand one returned surface to deconjugate_verb.          *)

\* the longest auxiliary chain the forward driver builds
MaxChain == 2

\* the default of deconjugate_verb's max_aux_depth parameter
MaxAuxDepth == 3

WRITE == <<"WRITE", "ku">>

EAT == <<"EAT", "be", "ru">>

BUY == <<"BUY", "u">>

SEE == <<"SEE", "ru">>

\* the verbs of the forward driver, each with the class flag it is called with
ForwardVerbs ==
    { [v |-> EAT, t2 |-> TRUE], [v |-> BUY, t2 |-> FALSE],
      [v |-> WRITE, t2 |-> FALSE], [v |-> IKU_KANJI, t2 |-> FALSE],
      [v |-> ARU, t2 |-> FALSE], [v |-> SURU, t2 |-> FALSE],
      [v |-> KURU_KANA, t2 |-> FALSE], [v |-> KURU_KANJI, t2 |-> FALSE],
      [v |-> DA, t2 |-> FALSE], [v |-> DESU, t2 |-> FALSE] }

\* the auxiliaries the forward driver builds chains from
ChainAux == final_only \cup { "POTENTIAL", "TE_IRU", "KURU" }

\* the inputs of the round-trip driver
RoundTripVerbs ==
    { [v |-> EAT, t2 |-> TRUE], [v |-> SEE, t2 |-> TRUE], [v |-> BUY, t2 |-> FALSE],
      [v |-> DA, t2 |-> FALSE] }

RoundTripConj == { "DICTIONARY", "TA" }

RoundTripChains ==
    { <<>>, <<"NAI">>, <<"MASU">>, <<"TE_IRU">>, <<"TAGARU">>, <<"POTENTIAL">>,
      <<"TE_IRU", "SOUDA_HEARSAY">>, <<"RERU_RARERU", "NAI">>,
      <<"TAGARU", "MASU">>, <<"POTENTIAL", "MASU">>, <<"MASU", "NAI">>,
      <<"RERU_RARERU", "TE_IRU", "MASU">> }

EngineIdle ==
    /\ verb = <<>> /\ type2 = FALSE /\ auxs = <<>> /\ conj = "DICTIONARY"
    /\ fwd = NoResult /\ given = <<>> /\ depth = 0 /\ hits = NoResult
    /\ vpc = "idle"

EngineInput(verbs, conjs, chains) ==
    /\ \E x \in verbs : verb = x.v /\ type2 = x.t2
    /\ conj \in conjs
    /\ auxs \in chains
    /\ fwd = NoResult /\ given = <<>> /\ depth = 0 /\ hits = NoResult
    /\ vpc = "input"

\* the caller lengthens the chain by one auxiliary
AppendAux(a) ==
    /\ vpc = "input"
    /\ Len(auxs) < MaxChain
    /\ auxs' = Append(auxs, a)
    /\ UNCHANGED <<verb, type2, conj, fwd, given, depth, hits, vpc>>
    /\ UNCHANGED <<matcherVars, pipelineVars, dictVars, instanceVars, helperVars>>

\* the caller calls conjugate_auxiliaries(verb, auxs, conj, type2)
Forward ==
    /\ vpc = "input"
    /\ fwd' = conjugate_auxiliaries(verb, auxs, conj, type2)
    /\ vpc' = "forward"
    /\ UNCHANGED <<verb, type2, auxs, conj, given, depth, hits>>
    /\ UNCHANGED <<matcherVars, pipelineVars, dictVars, instanceVars, helperVars>>

\* the caller calls deconjugate_verb(s, verb, type2, d) on a returned surface
Deconjugate(s, d) ==
    /\ vpc = "forward"
    /\ IsOk(fwd)
    /\ InList(s, fwd.out)
    /\ given' = s
    /\ depth' = d
    /\ hits' = deconjugate_verb(s, verb, type2, d)
    /\ vpc' = "done"
    /\ UNCHANGED <<verb, type2, auxs, conj, fwd>>
    /\ UNCHANGED <<matcherVars, pipelineVars, dictVars, instanceVars, helperVars>>

\* the dictionary forms and class flags a caller hands to deconjugate_verb
\* directly; <<>> is the empty string
SearchVerbs ==
    { [v |-> <<>>, t2 |-> FALSE], [v |-> <<>>, t2 |-> TRUE],
      [v |-> EAT, t2 |-> TRUE], [v |-> EAT, t2 |-> FALSE],
      [v |-> BUY, t2 |-> FALSE], [v |-> ARU, t2 |-> FALSE],
      [v |-> DA, t2 |-> FALSE], [v |-> <<"ru">>, t2 |-> TRUE] }

\* the surfaces handed over with them
SearchSurfaces ==
    { <<>>, <<"ta">>, <<"EAT", "be", "ta">>, <<"BUY", "xtsu", "ta">>,
      <<"na", "i">> }

\* the caller calls deconjugate_verb(s, verb, type2, d) on a surface of
\* its own, as deconjugate_word does with the word it was given
DeconjugateDirect(s, d) ==
    /\ vpc = "input"
    /\ given' = s
    /\ depth' = d
    /\ hits' = deconjugate_verb(s, verb, type2, d)
    /\ vpc' = "done"
    /\ UNCHANGED <<verb, type2, auxs, conj, fwd>>
    /\ UNCHANGED <<matcherVars, pipelineVars, dictVars, instanceVars, helperVars>>
----------------------------------------------------------------------------
(* conjugation/phrases.py: the phrase catalogue and its matcher.           *)
(* A morpheme is the record [surface, dictionary_form, pos] of what the    *)
(* segmenter reports; pos is the tuple part_of_speech() cut to its first   *)
(* two places.  Positions in a list count from 1, so morphemes[i] here is  *)
(* morphemes[i - 1] in the source.                                         *)

\* the buckets of COMPOUND_PHRASES for ten of its keys, each as it stands
\* after the merge of the generated phrases and the sort by length
COMPOUND_PHRASES ==
    (<<"no">> :>
      <<
         [phrase |-> <<"no", "de", "ha", "na", "i">>,
          meaning |-> "it's not that"],
         [phrase |-> <<"no", "de", "su">>,
          meaning |-> "it is that (polite)"],
         [phrase |-> <<"no", "ni">>,
          meaning |-> "although; even though"],
         [phrase |-> <<"no", "de">>,
          meaning |-> "because; since"],
         [phrase |-> <<"no", "da">>,
          meaning |-> "it is that; the fact is"]
      >>)
  @@
    (<<"te">> :>
      <<
         [phrase |-> <<"te", "ha", "i", "ke", "ma", "se", "n">>,
          meaning |-> "must not (polite)"],
         [phrase |-> <<"te", "mo", "i", "i", "de", "su", "ka">>,
          meaning |-> "may I...?"],
         [phrase |-> <<"te", "ka", "ra", "de", "na", "i", "to">>,
          meaning |-> "not until after"],
         [phrase |-> <<"te", "ha", "i", "ke", "na", "i">>,
          meaning |-> "must not; may not"],
         [phrase |-> <<"te", "ta", "ma", "ra", "na", "i">>,
          meaning |-> "unbearably; extremely"],
         [phrase |-> <<"te", "ba", "ka", "ri", "i", "ru">>,
          meaning |-> "do nothing but"],
         [phrase |-> <<"te", "mo", "i", "i", "de", "su">>,
          meaning |-> "may; it's okay to (polite)"],
         [phrase |-> <<"te", "mo", "yo", "ka", "xtsu", "ta">>,
          meaning |-> "may; it's okay to (past)"],
         [phrase |-> <<"te", "mo", "yo", "ku", "na", "i">>,
          meaning |-> "may; it's okay to (negative)"],
         [phrase |-> <<"te", "na", "ra", "na", "i">>,
          meaning |-> "can't help but feel"],
         [phrase |-> <<"te", "ha", "da", "me">>,
          meaning |-> "must not (casual)"],
         [phrase |-> <<"te", "mo", "i", "i">>,
          meaning |-> "may; it's okay to"],
         [phrase |-> <<"te", "mo">>,
          meaning |-> "even if; even though"]
      >>)
  @@
    (<<"te", "ha">> :>
      <<
         [phrase |-> <<"te", "ha", "da", "me">>,
          meaning |-> "must not (casual)"]
      >>)
  @@
    (<<"da">> :>
      <<
         [phrase |-> <<"da", "ke", "de", "na", "ku">>,
          meaning |-> "not only... but also"],
         [phrase |-> <<"da", "ke", "de", "ha">>,
          meaning |-> "just... is not enough"],
         [phrase |-> <<"da", "ro", "u">>,
          meaning |-> "probably; I think"]
      >>)
  @@
    (<<"ra", "shi", "i">> :>
      <<
         [phrase |-> <<"ra", "shi", "i", "de", "su">>,
          meaning |-> "seems like (polite)"],
         [phrase |-> <<"ra", "shi", "i">>,
          meaning |-> "seems like; apparently"]
      >>)
  @@
    (<<"wa">> :>
      <<
         [phrase |-> <<"wa", "ke", "ni", "ha", "i", "ka", "ma", "se", "n", "de", "shi", "ta">>,
          meaning |-> "can't possibly; mustn't (polite past)"],
         [phrase |-> <<"wa", "ke", "de", "ha", "ma", "se", "n", "de", "shi", "ta">>,
          meaning |-> "doesn't mean that (polite past)"],
         [phrase |-> <<"wa", "ke", "ni", "ha", "i", "ka", "na", "ka", "xtsu", "ta">>,
          meaning |-> "can't possibly; mustn't (past)"],
         [phrase |-> <<"wa", "ke", "ga", "ma", "se", "n", "de", "shi", "ta">>,
          meaning |-> "no way that; impossible (polite past)"],
         [phrase |-> <<"wa", "ke", "ni", "ha", "i", "ka", "ma", "se", "n">>,
          meaning |-> "can't possibly; mustn't (polite)"],
         [phrase |-> <<"wa", "ke", "ni", "ha", "i", "ka", "na", "ku", "te">>,
          meaning |-> "can't possibly; mustn't (te-form)"],
         [phrase |-> <<"wa", "ke", "de", "ha", "na", "ka", "xtsu", "ta">>,
          meaning |-> "doesn't mean that (past)"],
         [phrase |-> <<"wa", "ke", "ni", "ha", "i", "ka", "na", "i">>,
          meaning |-> "can't possibly; mustn't"],
         [phrase |-> <<"wa", "ke", "ga", "na", "ka", "xtsu", "ta">>,
          meaning |-> "no way that; impossible (past)"],
         [phrase |-> <<"wa", "ke", "de", "ha", "ma", "se", "n">>,
          meaning |-> "doesn't mean that (polite)"],
         [phrase |-> <<"wa", "ke", "de", "ha", "na", "ku", "te">>,
          meaning |-> "doesn't mean that (te-form)"],
         [phrase |-> <<"wa", "ke", "ga", "ma", "se", "n">>,
          meaning |-> "no way that; impossible (polite)"],
         [phrase |-> <<"wa", "ke", "ga", "na", "ku", "te">>,
          meaning |-> "no way that; impossible (te-form)"],
         [phrase |-> <<"wa", "ke", "de", "ha", "na", "i">>,
          meaning |-> "doesn't mean that"],
         [phrase |-> <<"wa", "ke", "ga", "na", "i">>,
          meaning |-> "no way that; impossible"]
      >>)
  @@
    (<<"wa", "ke">> :>
      <<
         [phrase |-> <<"wa", "ke", "da">>,
          meaning |-> "no wonder; that's why"]
      >>)
  @@
    (<<"na">> :>
      <<
         [phrase |-> <<"na", "i", "wa", "ke", "ni", "ha", "i", "ka", "na", "i">>,
          meaning |-> "must; have no choice but to"],
         [phrase |-> <<"na", "ke", "re", "ba", "na", "ri", "ma", "se", "n">>,
          meaning |-> "must (polite)"],
         [phrase |-> <<"na", "ke", "re", "ba", "na", "ra", "na", "i">>,
          meaning |-> "must; have to"],
         [phrase |-> <<"na", "ke", "re", "ba", "i", "ke", "na", "i">>,
          meaning |-> "must; have to"],
         [phrase |-> <<"na", "ku", "te", "ha", "na", "ra", "na", "i">>,
          meaning |-> "must; have to"],
         [phrase |-> <<"na", "ku", "te", "ha", "i", "ke", "na", "i">>,
          meaning |-> "must; have to"],
         [phrase |-> <<"na", "i", "to", "i", "ke", "na", "i">>,
          meaning |-> "must; have to"],
         [phrase |-> <<"na", "ku", "chi", "xya">>,
          meaning |-> "must (casual)"],
         [phrase |-> <<"na", "ki", "xya">>,
          meaning |-> "must (casual)"]
      >>)
  @@
    (<<"na", "ki", "xya">> :>
      <<
         [phrase |-> <<"na", "ki", "xya", "i", "ke", "na", "i">>,
          meaning |-> "must; have to (casual)"],
         [phrase |-> <<"na", "ki", "xya", "na", "ra", "na", "i">>,
          meaning |-> "must; have to (casual)"],
         [phrase |-> <<"na", "ki", "xya", "da", "me">>,
          meaning |-> "must; have to (casual)"]
      >>)
  @@
    (<<"ku", "re">> :>
      <<
         [phrase |-> <<"ku", "re", "na", "i">>,
          meaning |-> "won't do for me"],
         [phrase |-> <<"ku", "re", "ru">>,
          meaning |-> "do for me (give)"],
         [phrase |-> <<"ku", "re", "ta">>,
          meaning |-> "did for me"]
      >>)

\* the number of morphemes whose surfaces the matcher joins into `remaining`
PhraseWindow == 10

NoMatch == [found |-> FALSE, phrase |-> <<>>, meaning |-> "", consumed |-> 0]

\* COMPOUND_PHRASES[key] if key in COMPOUND_PHRASES, else nothing
Bucket(key) ==
    IF key \in DOMAIN COMPOUND_PHRASES THEN COMPOUND_PHRASES[key] ELSE <<>>

\* the bucket of the first surface, then the bucket of its first character
Candidates(first_surface) ==
    LET first_char == IF first_surface = <<>> THEN <<>> ELSE <<first_surface[1]>>
    IN  Bucket(first_surface)
          \o (IF first_char # first_surface THEN Bucket(first_char) ELSE <<>>)

RECURSIVE OfLength(_, _)
\* the candidates of length n, then those of each shorter length, every
\* length in list order
OfLength(candidates, n) ==
    IF n < 1 THEN <<>>
    ELSE SelectSeq(candidates, LAMBDA x : Len(x.phrase) = n)
           \o OfLength(candidates, n - 1)

RECURSIVE UpFrom(_, _, _)
\* the candidates of length n, then those of each greater length up to last
UpFrom(candidates, n, last) ==
    IF n > last THEN <<>>
    ELSE SelectSeq(candidates, LAMBDA x : Len(x.phrase) = n)
           \o UpFrom(candidates, n + 1, last)

Longest(candidates) ==
    LET lens == {Len(candidates[k].phrase) : k \in 1..Len(candidates)}
    IN  IF lens = {} THEN 0 ELSE CHOOSE n \in lens : \A m \in lens : m <= n

\* sorted(candidates, key=lambda x: len(x[0])): the shortest phrase first
ShortestFirst(candidates) == UpFrom(candidates, 1, Longest(candidates))

\* sorted(candidates, key=lambda x: -len(x[0])): stable, longest first
LongestFirst(candidates) ==
    OfLength(candidates, Longest(candidates))

\* "".join(m.surface() for m in morphemes[start_idx:start_idx + 10])
Remaining(ms, start) ==
    LET last == IF start + PhraseWindow - 1 < Len(ms)
                THEN start + PhraseWindow - 1 ELSE Len(ms)
    IN  Flatten([k \in 1..(last - start + 1) |->
                    ms[start + k - 1].surface])

RECURSIVE CountConsumed(_, _, _)
\* the loop that counts morphemes until the phrase's characters are covered
CountConsumed(ms, k, need) ==
    IF k > Len(ms) \/ need <= 0 THEN 0
    ELSE 1 + CountConsumed(ms, k + 1, need - Len(ms[k].surface))

try_match_compound_phrase(ms, start) ==
    IF start > Len(ms) THEN NoMatch
    ELSE LET candidates == Candidates(ms[start].surface)
             remaining == Remaining(ms, start)
             matching == SelectSeq(LongestFirst(candidates),
                                   LAMBDA x : StartsWith(remaining, x.phrase))
         IN  IF Len(matching) = 0 THEN NoMatch
             ELSE [found |-> TRUE,
                   phrase |-> matching[1].phrase,
                   meaning |-> matching[1].meaning,
                   consumed |-> CountConsumed(ms, start,
                                              Len(matching[1].phrase))]

----------------------------------------------------------------------------
(* The matcher driver: a caller of try_match_compound_phrase.  It takes a  *)
(* text, any segmentation of it into morphemes, and any start position.    *)

NO_DATTA == <<"no", "da", "xtsu", "ta">>

TEMO_II_DESU_KA == <<"te", "mo", "i", "i", "de", "su", "ka">>

RASHII_DESU == <<"ra", "shi", "i", "de", "su">>

NAKYA_NARANAI == <<"na", "ki", "xya", "na", "ra", "na", "i">>

WAKE_NIWA_IKAMASEN_DESHITA ==
    <<"wa", "ke", "ni", "ha", "i", "ka", "ma", "se", "n", "de", "shi", "ta">>

MatcherTexts ==
    { NO_DATTA, TEMO_II_DESU_KA, RASHII_DESU, NAKYA_NARANAI,
      WAKE_NIWA_IKAMASEN_DESHITA }

\* a morpheme of which only the surface is known
Piece(s) == [surface |-> s, dictionary_form |-> s, pos |-> <<"", "">>]

RECURSIVE Segmentations(_)
\* every way to cut a text into non-empty morphemes
Segmentations(text) ==
    IF text = <<>> THEN { <<>> }
    ELSE UNION { { <<Piece(SubSeq(text, 1, k))>> \o rest :
                     rest \in Segmentations(SubSeq(text, k + 1, Len(text))) } :
                 k \in 1..Len(text) }

MatcherIdle ==
    segments = <<>> /\ start_idx = 0 /\ matched = NoMatch /\ mpc = "idle"

MatcherInput ==
    /\ \E text \in MatcherTexts : segments \in Segmentations(text)
    /\ start_idx = 0 /\ matched = NoMatch /\ mpc = "input"

\* the caller calls try_match_compound_phrase(segments, k)
Match(k) ==
    /\ mpc = "input"
    /\ start_idx' = k
    /\ matched' = try_match_compound_phrase(segments, k)
    /\ mpc' = "done"
    /\ UNCHANGED segments
    /\ UNCHANGED <<engineVars, pipelineVars, dictVars, instanceVars, helperVars>>

----------------------------------------------------------------------------
(* analysis.py: the sentence pipelines.  Readings and meanings are data    *)
(* the loops carry but never branch on; a token keeps the fields the loops *)
(* decide: word, base, pos and whether conjugation info is attached.       *)

\* the segmenter's part-of-speech tags, romanised
DOUSHI == "doushi"

JODOUSHI == "jodoushi"

JOSHI == "joshi"

MEISHI == "meishi"

KEIYOUSHI == "keiyoushi"

KEIJOUSHI == "keijoushi"

SETSUBIJI == "setsubiji"

HOJOKIGOU == "hojokigou"

SETSUZOKUJOSHI == "setsuzokujoshi"

HIJIRITSUKANOU == "hijiritsukanou"

MEISHITEKI == "meishiteki"

IPPAN == "ippan"

\* pos_tuple[0] and pos_tuple[1]
Main(m) == m.pos[1]

Sub(m) == m.pos[2]

SKIP_POS == { HOJOKIGOU, "kigou", "kuuhaku" }

\* the main tags analyze_simple keeps as content words
ContentPOS ==
    { MEISHI, DOUSHI, KEIJOUSHI, "daimeishi", "fukushi", "setsuzokushi",
      "rentaishi" }

\* the characters of the model's texts that lie outside U+3040..U+309F
NotHiragana ==
    { "EAT", "SEE", "BUY", "WRITE", "GO", "COME", "OFFER", "UP", "HIGH", "ENTER", "FORGET", "VISIT", "TOUCH", "PART", "APPEAR", "FLOW",
      "OVERFLOW", "SPILL", "DIVIDE", "MARU" }

is_hiragana(char) == char[1] \notin NotHiragana

\* s in compound
Contains(compound, s) ==
    \E k \in 0..(Len(compound) - Len(s)) : SubSeq(compound, k + 1, k + Len(s)) = s

can_attach_morpheme(next_main, next_sub, next_surface) ==
    \/ next_main \in { JODOUSHI, SETSUBIJI }
    \/ next_sub = HIJIRITSUKANOU
    \/ /\ next_main = JOSHI
       /\ next_sub = SETSUZOKUJOSHI
       /\ next_surface \in { <<"te">>, <<"de">>, <<"ba">>, <<"ta", "ra">>,
                             <<"ta", "ri">>, <<"na", "ga", "ra">> }

\* the headwords the dictionary has an entry for
JMDictHeadwords ==
    { EAT, BUY, <<"ku", "re", "ru">>, KURU_KANA, <<"ENTER", "re", "ru">>,
      <<"ENTER", "ru">>, <<"HIGH", "i">>, <<"wa", "ke">> }

\* the headwords whose details carry the tag "Suru verb": lookup_details
\* builds its tags from POS_TAGS and MISC_TAGS, which never yield that tag
SuruVerbNouns == {}

\* jmdict.lookup_details(word) is not None
HasDetails(word) == word \in JMDictHeadwords

skip_correction ==
    { <<"ENTER", "re", "ru">>, <<"FORGET", "re", "ru">>, <<"VISIT", "re", "ru">>,
      <<"TOUCH", "re", "ru">>, <<"PART", "re", "ru">>, <<"APPEAR", "re", "ru">>,
      <<"FLOW", "re", "ru">>, <<"OVERFLOW", "re", "ru">>, <<"SPILL", "re", "ru">>,
      <<"DIVIDE", "ka", "re", "ru">> }

\* analyze_text's base form of a head: the ra-nuki correction
RaNukiBase(m) ==
    LET base_form == m.dictionary_form
        potential_base == DropLast(base_form, 2) \o <<"ru">>
    IN  IF /\ Main(m) = DOUSHI
           /\ EndsWith(base_form, <<"re", "ru">>)
           /\ Len(base_form) > 2
           /\ base_form \notin skip_correction
           /\ HasDetails(potential_base)
        THEN potential_base
        ELSE base_form

\* which grouping loop a view runs for a head
GroupingRule(v, m) ==
    CASE v = "text" /\ Main(m) = DOUSHI -> "text verb"
      [] v = "text" /\ Main(m) = KEIJOUSHI -> "text na"
      [] v = "text" /\ Main(m) = KEIYOUSHI -> "text i"
      [] v = "simple" /\ Main(m) = DOUSHI -> "simple verb"
      [] v = "simple" /\ Main(m) = KEIJOUSHI -> "copula"
      [] v = "simple" /\ Main(m) = KEIYOUSHI /\ Sub(m) # HIJIRITSUKANOU -> "i"
      [] v = "full" /\ Main(m) = DOUSHI -> "full verb"
      [] v = "full" /\ Main(m) \in { KEIJOUSHI, MEISHI } -> "copula"
      [] v = "full" /\ Main(m) = KEIYOUSHI -> "i"
      [] OTHER -> "none"

\* the can-attach test of each grouping loop
CanAttach(rule, next, prev_was_de) ==
    LET ns == next.surface
    IN  CASE rule = "text verb" ->
               \/ can_attach_morpheme(Main(next), Sub(next), ns)
               \/ next.dictionary_form = <<"so", "u">> /\ Main(next) = KEIJOUSHI
          [] rule = "full verb" -> can_attach_morpheme(Main(next), Sub(next), ns)
          [] rule = "simple verb" ->
               \/ Main(next) \in { JODOUSHI, SETSUBIJI }
               \/ Sub(next) = HIJIRITSUKANOU
               \/ Main(next) = JOSHI /\ Sub(next) = SETSUZOKUJOSHI
          [] rule = "text na" ->
               \/ Main(next) = JODOUSHI
               \/ ns \in { <<"ji", "xya">>, <<"de", "ha">>, <<"de">> }
               \/ ns = <<"ha">> /\ prev_was_de
          [] rule = "copula" ->
               \/ Main(next) \in { JODOUSHI, KEIYOUSHI }
               \/ ns \in { <<"ji", "xya">>, <<"de", "ha">>, <<"de">> }
               \/ ns = <<"ha">> /\ prev_was_de
          [] rule = "text i" ->
               \/ Main(next) = JODOUSHI
               \/ Main(next) = JOSHI /\ ns \in { <<"te">>, <<"de">>, <<"ba">> }
          [] rule = "i" ->
               \/ Main(next) = KEIYOUSHI /\ Sub(next) = HIJIRITSUKANOU
               \/ Main(next) = JODOUSHI
               \/ ns \in { <<"te">>, <<"ba">> }
          [] OTHER -> FALSE

RECURSIVE GroupEnd(_, _, _, _)
\* the while loop over j: the first position the head's group does not take
GroupEnd(ms, j, rule, prev_was_de) ==
    IF j > Len(ms) \/ ~CanAttach(rule, ms[j], prev_was_de) THEN j
    ELSE GroupEnd(ms, j + 1, rule, ms[j].surface = <<"de">>)

\* compound_surface: the surfaces of morphemes[i .. j - 1] joined
Compound(ms, from, j) ==
    Flatten([k \in 1..(j - from) |-> ms[from + k - 1].surface])

----------------------------------------------------------------------------
(* helpers.py: the probes of the conjugation engines.  What the callees    *)
(* do inside a probe is the probe's outcome: the phrase-suffix matcher     *)
(* matched ("phrase"), the engine found hits and the hint was generated    *)
(* ("hits"), the engine found nothing ("none"), the engine raised          *)
(* ("engine raised"), or the hint generator raised ("hint raised").        *)

VerbOutcomes == { "phrase", "hits", "none", "engine raised", "hint raised" }

AdjectiveOutcomes == { "hits", "none", "engine raised", "hint raised" }

\* the body of the try block
TryBlock(outcome, info) ==
    CASE outcome = "hits" -> Ok(info)
      [] outcome = "none" -> Ok("None")
      [] OTHER -> Raise("Exception")

\* a try block without a handler
ExceptNothing(r) == r

\* except Exception: pass, and the return None after it
ExceptException(r) == IF Raised(r) THEN Ok("None") ELSE r

\* the outcome of match_phrase_suffix(surface)
match_phrase_suffix(outcome) == outcome = "phrase"

try_deconjugate_verb(compound_surface, base_form, outcome) ==
    IF compound_surface = base_form THEN Ok("None")
    ELSE IF match_phrase_suffix(outcome) THEN Ok("PHRASE")
    ELSE ExceptException(TryBlock(outcome, "VERB"))

try_deconjugate_adjective(compound_surface, base_form, outcome) ==
    IF compound_surface = base_form THEN Ok("None")
    ELSE ExceptException(TryBlock(outcome, "ADJECTIVE"))

\* the summary of the first pattern the compound holds, or None
_analyze_na_adjective_conjugation(compound) ==
    LET patterns ==
          << [suffix |-> <<"de", "shi", "ta">>, summary |-> "past (polite)"],
             [suffix |-> <<"da", "xtsu", "ta">>, summary |-> "past"],
             [suffix |-> <<"ji", "xya", "na", "ka", "xtsu", "ta">>,
              summary |-> "negative past"],
             [suffix |-> <<"de", "ha", "na", "ka", "xtsu", "ta">>,
              summary |-> "negative past"],
             [suffix |-> <<"ji", "xya", "na", "i">>, summary |-> "negative"],
             [suffix |-> <<"de", "ha", "na", "i">>, summary |-> "negative"],
             [suffix |-> <<"de", "su">>, summary |-> "copula (polite)"],
             [suffix |-> <<"da">>, summary |-> "copula"] >>
        found == SelectSeq(patterns, LAMBDA p :
                    Contains(compound, p.suffix) \/ EndsWith(compound, p.suffix))
    IN  IF Len(found) = 0 THEN "None" ELSE found[1].summary

_analyze_i_adjective_conjugation(compound) ==
    LET patterns ==
          << [suffix |-> <<"ku", "na", "ka", "xtsu", "ta">>,
              summary |-> "negative past"],
             [suffix |-> <<"ka", "xtsu", "ta">>, summary |-> "past"],
             [suffix |-> <<"ku", "na", "i">>, summary |-> "negative"],
             [suffix |-> <<"ku", "te">>, summary |-> "te-form"],
             [suffix |-> <<"ke", "re", "ba">>, summary |-> "conditional"] >>
        found == SelectSeq(patterns, LAMBDA p : EndsWith(compound, p.suffix))
    IN  IF Len(found) = 0 THEN "None" ELSE found[1].summary

_analyze_noun_copula(compound) == _analyze_na_adjective_conjugation(compound)

\* analyze_simple's conjugation_hint of an adjective group
SimpleAdjectiveHint(rule, compound_surface, base_form) ==
    IF compound_surface = base_form THEN "None"
    ELSE IF rule = "copula"
    THEN IF \/ Contains(compound_surface, <<"ji", "xya", "na", "i">>)
            \/ Contains(compound_surface, <<"de", "ha", "na", "i">>)
         THEN "negative (not)"
         ELSE IF Contains(compound_surface, <<"da", "xtsu", "ta">>)
         THEN "past (was)" ELSE "None"
    ELSE IF rule = "i"
    THEN IF EndsWith(compound_surface, <<"ku", "na", "i">>) THEN "negative (not)"
         ELSE IF EndsWith(compound_surface, <<"ka", "xtsu", "ta">>)
         THEN "past (was)" ELSE "None"
    ELSE "None"

----------------------------------------------------------------------------
(* analysis.py: one request.  A request is a view applied to the list of   *)
(* morphemes the segmenter returned for the text; each action below is one *)
(* iteration of the view's while loop.                                     *)

Views == { "text", "simple", "full" }

\* the longest morpheme list of a request
MaxMorphemes == 3

\* the most requests one process serves
MaxRequests == 2

Morpheme(s, d, main, sub) ==
    [surface |-> s, dictionary_form |-> d, pos |-> <<main, sub>>]

\* the morphemes the segmenter may return
Lexicon ==
    { Morpheme(<<"EAT", "be">>, EAT, DOUSHI, IPPAN),
      Morpheme(<<"EAT", "be", "re">>, <<"EAT", "be", "re", "ru">>, DOUSHI, IPPAN),
      Morpheme(<<"ku", "re">>, <<"ku", "re", "ru">>, DOUSHI, HIJIRITSUKANOU),
      Morpheme(<<"ENTER", "re">>, <<"ENTER", "re", "ru">>, DOUSHI, IPPAN),
      Morpheme(<<"ta">>, <<"ta">>, JODOUSHI, ""),
      Morpheme(<<"da">>, <<"da">>, JODOUSHI, ""),
      Morpheme(<<"no">>, <<"no">>, JOSHI, "juntaijoshi"),
      Morpheme(<<"te">>, <<"te">>, JOSHI, SETSUZOKUJOSHI),
      Morpheme(<<"ka", "ra">>, <<"ka", "ra">>, JOSHI, SETSUZOKUJOSHI),
      Morpheme(<<"HIGH", "ka", "xtsu">>, <<"HIGH", "i">>, KEIYOUSHI, IPPAN),
      Morpheme(<<"wa", "ke">>, <<"wa", "ke">>, MEISHI, "futsuumeishi"),
      Morpheme(<<"MARU">>, <<"MARU">>, HOJOKIGOU, "kuten") }

\* every morpheme list of at most n morphemes
Sentences(n) == UNION { [1..k -> Lexicon] : k \in 0..n }

\* texts longer than MaxMorphemes: a verb followed by a catalogue phrase
\* (taberu + nakereba narimasen, as the segmenter cuts it)
PhraseTexts ==
    { << Morpheme(<<"EAT", "be">>, EAT, DOUSHI, IPPAN),
         Morpheme(<<"na", "ke", "re">>, <<"na", "i">>, JODOUSHI, ""),
         Morpheme(<<"ba">>, <<"ba">>, JOSHI, SETSUZOKUJOSHI),
         Morpheme(<<"na", "ri">>, <<"na", "ru">>, DOUSHI, HIJIRITSUKANOU),
         Morpheme(<<"ma", "se">>, <<"ma", "su">>, JODOUSHI, ""),
         Morpheme(<<"n">>, <<"nu">>, JODOUSHI, "") >> }

\* the texts the same process is asked about again and again
RepeatTexts ==
    LET eat == Morpheme(<<"EAT", "be">>, EAT, DOUSHI, IPPAN)
        can_eat == Morpheme(<<"EAT", "be", "re">>, <<"EAT", "be", "re", "ru">>,
                            DOUSHI, IPPAN)
        ta == Morpheme(<<"ta">>, <<"ta">>, JODOUSHI, "")
        da == Morpheme(<<"da">>, <<"da">>, JODOUSHI, "")
        no == Morpheme(<<"no">>, <<"no">>, JOSHI, "juntaijoshi")
        wake == Morpheme(<<"wa", "ke">>, <<"wa", "ke">>, MEISHI, "futsuumeishi")
    IN  { <<eat, ta>>, <<eat, ta, no, da, eat>>, <<wake, no, wake>>,
          <<can_eat, ta, wake, eat>> }

\* the set of seen forms outlives the request
StaleSeen == seen_bases

\* seen_bases: set[str] = set()
FreshSeen == {}

PhraseToken(v, phrase_match) ==
    [word |-> phrase_match.phrase, base |-> phrase_match.phrase, pos |-> "Phrase",
     conjugation |-> IF v = "text" THEN "PHRASE" ELSE "None"]

WordToken(compound_surface, base_form, pos, conjugation) ==
    [word |-> compound_surface, base |-> base_form, pos |-> pos,
     conjugation |-> conjugation]

\* the part of a response that does not depend on the engines' outcomes
Words(list) ==
    [k \in 1..Len(list) |-> [word |-> list[k].word, base |-> list[k].base,
                             pos |-> list[k].pos]]

\* no single-word analysis has been asked for
NoDeep == [err |-> "not called", dictionary_form |-> <<>>, word_type |-> "",
           layers |-> "none"]

PipelineIdle ==
    /\ view = "text" /\ morphemes = <<>> /\ i = 1 /\ seen_bases = {}
    /\ consumed_indices = {} /\ tokens = <<>> /\ spans = <<>>
    /\ details = "unused"
    /\ probe = "unused"
    /\ ppc = "idle" /\ deep = NoDeep /\ requests = 0 /\ answered = <<>>

PipelineInput(texts) ==
    /\ view \in Views /\ morphemes \in texts /\ i = 1 /\ seen_bases = {}
    /\ consumed_indices = {} /\ tokens = <<>> /\ spans = <<>>
    /\ details = "unused"
    /\ probe = "unused"
    /\ ppc = "loop" /\ deep = NoDeep /\ requests = 1 /\ answered = <<>>

\* what a call of jmdict.lookup or jmdict.lookup_details can do
LookupOutcomes == { "returned", "raised" }

\* what one iteration went over: the positions from .. to - 1, and what it
\* emitted for them ("word", "phrase" or "none")
Span(from, to, emitted) == [from |-> from, to |-> to, emitted |-> emitted]

\* a `continue` that forgets to move the position
ContinueInPlace(k, looked) ==
    /\ i' = i
    /\ spans' = Append(spans, Span(i, k, "none"))
    /\ details' = looked
    /\ probe' = "unused"
    /\ UNCHANGED <<tokens, seen_bases, ppc>>

\* the iteration ends with `continue` at position k, nothing emitted
Continue(k, looked) ==
    /\ i' = k
    /\ spans' = Append(spans, Span(i, k, "none"))
    /\ details' = looked
    /\ probe' = "unused"
    /\ UNCHANGED <<tokens, seen_bases, ppc>>

\* a dictionary lookup of the iteration raised: no handler stands between
\* the call and the caller of the view
LookupRaised(seen) ==
    /\ details' = "raised"
    /\ ppc' = "failed"
    /\ probe' = "unused"
    /\ seen_bases' = seen
    /\ UNCHANGED <<tokens, spans, i>>

\* the iteration appends a phrase token and continues at the next morpheme
EmitPhraseOneStep(phrase_match) ==
    /\ tokens' = Append(tokens, PhraseToken(view, phrase_match))
    /\ spans' = Append(spans, Span(i, i + 1, "phrase"))
    /\ i' = i + 1
    /\ details' = "unused"
    /\ probe' = "unused"
    /\ UNCHANGED <<seen_bases, ppc>>

\* the iteration appends a phrase token and continues after the phrase
EmitPhrase(phrase_match) ==
    /\ tokens' = Append(tokens, PhraseToken(view, phrase_match))
    /\ spans' = Append(spans, Span(i, i + phrase_match.consumed, "phrase"))
    /\ i' = i + phrase_match.consumed
    /\ details' = "unused"
    /\ probe' = "unused"
    /\ UNCHANGED <<seen_bases, ppc>>

\* a dropped head whose attachments are left for the next iterations
EmitWordSkipsHead(base_form, j, outcome, looked, info, compound_surface, pos) ==
    IF base_form \in seen_bases
    THEN /\ outcome = "unused"
         /\ i' = i + 1
         /\ spans' = Append(spans, Span(i, j, "none"))
         /\ details' = looked
         /\ probe' = "unused"
         /\ UNCHANGED <<tokens, seen_bases, ppc>>
    ELSE IF looked = "raised"
    THEN outcome = "unused" /\ LookupRaised(seen_bases \cup { base_form })
    ELSE /\ seen_bases' = seen_bases \cup { base_form }
         /\ details' = looked
         /\ probe' = outcome
         /\ IF Raised(info)
            THEN ppc' = "failed" /\ UNCHANGED <<tokens, spans, i>>
            ELSE /\ tokens' = Append(tokens,
                        WordToken(compound_surface, base_form, pos, info.out))
                 /\ spans' = Append(spans, Span(i, j, "word"))
                 /\ i' = j
                 /\ UNCHANGED ppc

\* the iteration from the seen_bases test on: base_form is new or not,
\* looked is the outcome of the iteration's lookups, info the result of the
\* conjugation probe that follows them
EmitWord(base_form, j, outcome, looked, info, compound_surface, pos) ==
    IF base_form \in seen_bases THEN outcome = "unused" /\ Continue(j, looked)
    ELSE IF looked = "raised"
    THEN outcome = "unused" /\ LookupRaised(seen_bases \cup { base_form })
    ELSE /\ seen_bases' = seen_bases \cup { base_form }
         /\ details' = looked
         /\ probe' = outcome
         /\ IF Raised(info)
            THEN ppc' = "failed" /\ UNCHANGED <<tokens, spans, i>>
            ELSE /\ tokens' = Append(tokens,
                        WordToken(compound_surface, base_form, pos, info.out))
                 /\ spans' = Append(spans, Span(i, j, "word"))
                 /\ i' = j
                 /\ UNCHANGED ppc

\* the outcomes a probe of this head can have
Outcomes(probed) ==
    CASE probed = "verb" -> VerbOutcomes
      [] probed = "adjective" -> AdjectiveOutcomes
      [] OTHER -> { "unused" }

\* one iteration of analyze_text's loop
analyze_text(outcome, looked) ==
    /\ ppc = "loop" /\ view = "text" /\ i <= Len(morphemes)
    /\ LET phrase_match == try_match_compound_phrase(morphemes, i)
           m == morphemes[i]
           base_form == RaNukiBase(m)
           j == GroupEnd(morphemes, i + 1, GroupingRule("text", m), FALSE)
           compound_surface == Compound(morphemes, i, j)
           probed == IF compound_surface = base_form THEN "none"
                     ELSE IF Main(m) = DOUSHI THEN "verb"
                     ELSE IF Main(m) = KEIYOUSHI THEN "adjective"
                     ELSE "none"
           info == CASE probed = "verb" ->
                          try_deconjugate_verb(compound_surface, base_form, outcome)
                     [] probed = "adjective" ->
                          try_deconjugate_adjective(compound_surface, base_form, outcome)
                     [] OTHER -> Ok("None")
       IN  IF phrase_match.found
           THEN outcome = "unused" /\ looked = "unused" /\ EmitPhrase(phrase_match)
           ELSE IF Main(m) \in SKIP_POS
           THEN outcome = "unused" /\ looked = "unused" /\ Continue(i + 1, "unused")
           ELSE IF looked = "raised"
           THEN outcome = "unused" /\ LookupRaised(seen_bases)
           ELSE /\ looked = "returned"
                /\ (base_form \in seen_bases \/ outcome \in Outcomes(probed))
                /\ EmitWord(base_form, j, outcome, looked, info, compound_surface,
                            Main(m))
    /\ UNCHANGED <<view, morphemes, consumed_indices, deep, requests, answered>>
    /\ UNCHANGED <<engineVars, matcherVars, dictVars, instanceVars, helperVars>>

\* one iteration of analyze_simple's loop
analyze_simple(outcome, looked) ==
    /\ ppc = "loop" /\ view = "simple" /\ i <= Len(morphemes)
    /\ LET m == morphemes[i]
           surface == m.surface
           base_form == m.dictionary_form
           is_content == Main(m) \in ContentPOS
           is_counter == Main(m) = SETSUBIJI /\ Sub(m) = MEISHITEKI
           kept == \/ is_content
                   \/ is_counter
                   \/ Main(m) = KEIYOUSHI /\ Sub(m) # HIJIRITSUKANOU
           garbage ==
               \/ /\ Main(m) = DOUSHI /\ Len(surface) = 1 /\ is_hiragana(surface)
                  /\ IF surface \in { <<"shi">>, <<"su">> } /\ i < Len(morphemes)
                     THEN Main(morphemes[i + 1]) # JODOUSHI
                     ELSE TRUE
               \/ base_form = SURU /\ Len(surface) > 1
           rule == GroupingRule("simple", m)
           j == GroupEnd(morphemes, i + 1, rule, FALSE)
           compound_surface == Compound(morphemes, i, j)
           conjugation_hint == SimpleAdjectiveHint(rule, compound_surface, base_form)
           probed == IF Main(m) = DOUSHI /\ compound_surface # base_form
                     THEN "verb" ELSE "none"
           info == IF probed = "verb"
                   THEN try_deconjugate_verb(compound_surface, base_form, outcome)
                   ELSE Ok(conjugation_hint)
       IN  IF i \in consumed_indices \/ ~kept \/ garbage
           THEN /\ outcome = "unused" /\ looked = "unused"
                /\ Continue(i + 1, "unused") /\ UNCHANGED consumed_indices
           ELSE /\ consumed_indices' = consumed_indices \cup ((i + 1)..(j - 1))
                /\ IF base_form \in seen_bases THEN looked = "unused"
                   ELSE looked \in LookupOutcomes
                /\ (base_form \in seen_bases \/ looked = "raised"
                      \/ outcome \in Outcomes(probed))
                /\ EmitWord(base_form, j, outcome, looked, info, compound_surface, "")
    /\ UNCHANGED <<view, morphemes, deep, requests, answered>>
    /\ UNCHANGED <<engineVars, matcherVars, dictVars, instanceVars, helperVars>>

\* one iteration of analyze_full's loop
analyze_full(outcome, looked) ==
    /\ ppc = "loop" /\ view = "full" /\ i <= Len(morphemes)
    /\ LET phrase_match == try_match_compound_phrase(morphemes, i)
           m == morphemes[i]
           base_form == m.dictionary_form
           j == GroupEnd(morphemes, i + 1, GroupingRule("full", m), FALSE)
           compound_surface == Compound(morphemes, i, j)
           probed == IF Main(m) = DOUSHI /\ compound_surface # base_form
                     THEN "verb" ELSE "none"
           info == CASE compound_surface = base_form -> Ok("None")
                     [] Main(m) = DOUSHI ->
                          try_deconjugate_verb(compound_surface, base_form, outcome)
                     [] Main(m) = KEIJOUSHI ->
                          Ok(_analyze_na_adjective_conjugation(compound_surface))
                     [] Main(m) = KEIYOUSHI ->
                          Ok(_analyze_i_adjective_conjugation(compound_surface))
                     [] Main(m) = MEISHI ->
                          Ok(_analyze_noun_copula(compound_surface))
                     [] OTHER -> Ok("None")
           looks_up == Main(m) \in { MEISHI, DOUSHI, KEIYOUSHI, KEIJOUSHI, "fukushi" }
       IN  IF Main(m) \in SKIP_POS
           THEN outcome = "unused" /\ looked = "unused" /\ Continue(i + 1, "unused")
           ELSE IF phrase_match.found
           THEN outcome = "unused" /\ looked = "unused" /\ EmitPhrase(phrase_match)
           ELSE /\ IF base_form \in seen_bases \/ ~looks_up THEN looked = "unused"
                   ELSE looked \in LookupOutcomes
                /\ (base_form \in seen_bases \/ looked = "raised"
                      \/ outcome \in Outcomes(probed))
                /\ EmitWord(base_form, j, outcome, looked, info, compound_surface,
                            Main(m))
    /\ UNCHANGED <<view, morphemes, consumed_indices, deep, requests, answered>>
    /\ UNCHANGED <<engineVars, matcherVars, dictVars, instanceVars, helperVars>>

\* the word types a caller of deconjugate_word passes
WordTypes == { "auto", "verb", "adjective" }

\* the dictionary forms a caller passes; <<>> is None
GivenForms == { <<>>, EAT }

\* the words deconjugate_word is asked about, as the segmenter cuts them
Words1 == Sentences(1)

WordInput ==
    /\ view = "word" /\ morphemes \in Words1 /\ i = 1 /\ seen_bases = {}
    /\ consumed_indices = {} /\ tokens = <<>> /\ spans = <<>>
    /\ details = "unused"
    /\ probe = "unused"
    /\ ppc = "loop" /\ deep = NoDeep /\ requests = 1 /\ answered = <<>>

\* deconjugate_word's dictionary form of a verb: the ra-nuki correction
WordRaNukiBase(dict_form) ==
    LET potential_base == DropLast(dict_form, 2) \o <<"ru">>
    IN  IF /\ EndsWith(dict_form, <<"re", "ru">>)
           /\ Len(dict_form) > 2
           /\ HasDetails(potential_base)
        THEN potential_base
        ELSE dict_form

\* deconjugate_word(word, dictionary_form, word_type): morphemes is the
\* segmenter's cut of word, given_form the dictionary_form argument
deconjugate_word(given_form, word_type, outcome, looked) ==
    /\ ppc = "loop" /\ view = "word"
    /\ LET main_pos == IF morphemes = <<>> THEN "" ELSE Main(morphemes[1])
           from_word == given_form = <<>> /\ morphemes # <<>>
           detected_type ==
               IF ~from_word THEN word_type
               ELSE IF main_pos = DOUSHI THEN "verb"
               ELSE IF main_pos \in { KEIYOUSHI, KEIJOUSHI } THEN "adjective"
               ELSE IF /\ word_type = "auto" /\ main_pos = MEISHI
                       /\ morphemes[1].dictionary_form \in SuruVerbNouns
               THEN "verb"
               ELSE word_type
           dict_form ==
               IF ~from_word THEN given_form
               ELSE IF main_pos = DOUSHI
               THEN WordRaNukiBase(morphemes[1].dictionary_form)
               ELSE IF /\ word_type = "auto" /\ main_pos = MEISHI
                       /\ morphemes[1].dictionary_form \in SuruVerbNouns
               THEN morphemes[1].dictionary_form \o SURU
               ELSE morphemes[1].dictionary_form
           probed == detected_type \in { "verb", "auto", "adjective" }
           Failed(e) ==
               /\ deep' = [err |-> e, dictionary_form |-> dict_form,
                            word_type |-> detected_type, layers |-> "none"]
               /\ ppc' = "failed"
       IN  IF dict_form = <<>>
           THEN /\ outcome = "unused" /\ looked = "unused"
                /\ Failed("ValueError") /\ UNCHANGED <<details, probe>>
           ELSE IF given_form # <<>>
           THEN /\ outcome = "unused" /\ looked = "unused"
                /\ Failed("UnboundLocalError") /\ UNCHANGED <<details, probe>>
           ELSE IF looked = "raised"
           THEN /\ outcome = "unused"
                /\ Failed("lookup") /\ details' = looked /\ UNCHANGED probe
           ELSE /\ looked = "returned"
                /\ outcome \in (IF probed THEN { "hits", "none", "engine raised" }
                                 ELSE { "unused" })
                /\ details' = looked
                /\ probe' = outcome
                /\ IF outcome = "engine raised" THEN Failed("engine")
                   ELSE /\ deep' = [err |-> "", dictionary_form |-> dict_form,
                                     word_type |->
                                         IF outcome = "hits" /\ detected_type = "auto"
                                         THEN "verb"
                                         ELSE IF detected_type = "auto" THEN "unknown"
                                         ELSE detected_type,
                                     layers |-> outcome]
                        /\ ppc' = "done"
    /\ UNCHANGED <<view, morphemes, i, seen_bases, consumed_indices, tokens, spans,
                   requests, answered>>
    /\ UNCHANGED <<engineVars, matcherVars, dictVars, instanceVars, helperVars>>

\* the loop is over: the view returns its response
Return ==
    /\ ppc = "loop" /\ view \in Views /\ i > Len(morphemes)
    /\ ppc' = "done"
    /\ answered' = Append(answered,
            [view |-> view, text |-> morphemes, tokens |-> Words(tokens)])
    /\ UNCHANGED <<view, morphemes, i, seen_bases, consumed_indices, tokens, spans,
                   details, probe, deep, requests>>
    /\ UNCHANGED <<engineVars, matcherVars, dictVars, instanceVars, helperVars>>

\* the process takes the next request: the view's locals are created anew
NextRequest(v, text) ==
    /\ ppc = "done" /\ requests < MaxRequests
    /\ view' = v
    /\ morphemes' = text
    /\ i' = 1
    /\ seen_bases' = FreshSeen
    /\ consumed_indices' = {}
    /\ tokens' = <<>>
    /\ spans' = <<>>
    /\ details' = "unused"
    /\ probe' = "unused"
    /\ ppc' = "loop"
    /\ requests' = requests + 1
    /\ UNCHANGED <<deep, answered>>
    /\ UNCHANGED <<engineVars, matcherVars, dictVars, instanceVars, helperVars>>

----------------------------------------------------------------------------
(* jmdict.py: the dictionary.  An entry keeps the fields the lookups read: *)
(* its kanji and kana forms with their common flags, its senses, and for   *)
(* a name entry its translations.  None is the empty sequence.             *)

Form(text, common) == [text |-> text, common |-> common]

Sense(pos, misc, gloss) == [partOfSpeech |-> pos, misc |-> misc, gloss |-> gloss]

\* an entry of the general file
WordEntry(id, kanji, kana, sense) ==
    [id |-> id, kanji |-> kanji, kana |-> kana, sense |-> sense,
     translation |-> <<>>, is_name |-> FALSE]

\* an entry of the names file; _load_names marks it
NameEntry(id, kanji, kana, translation) ==
    [id |-> id, kanji |-> kanji, kana |-> kana, sense |-> <<>>,
     translation |-> translation, is_name |-> TRUE]

\* dict.get(key): the list under key, or None
Get(index, key) == IF key \in DOMAIN index THEN index[key] ELSE <<>>

\* index[text].append(entry), creating the list at the first use
Put(index, key, entry) ==
    IF key \in DOMAIN index THEN [index EXCEPT ![key] = Append(@, entry)]
    ELSE index @@ (key :> <<entry>>)

RECURSIVE AddForms(_, _, _, _)
\* the loop over an entry's forms: every non-empty text indexes the entry
AddForms(index, forms, k, entry) ==
    IF k > Len(forms) THEN index
    ELSE AddForms(IF forms[k].text = <<>> THEN index
                  ELSE Put(index, forms[k].text, entry),
                  forms, k + 1, entry)

RECURSIVE IndexKanji(_, _, _)
\* the loop over the file's entries, kanji forms
IndexKanji(index, words, k) ==
    IF k > Len(words) THEN index
    ELSE IndexKanji(AddForms(index, words[k].kanji, 1, words[k]), words, k + 1)

RECURSIVE IndexKana(_, _, _)
\* the loop over the file's entries, kana forms
IndexKana(index, words, k) ==
    IF k > Len(words) THEN index
    ELSE IndexKana(AddForms(index, words[k].kana, 1, words[k]), words, k + 1)

\* {}
EmptyIndex == <<>>

\* the kana that carry a voicing mark, each with the kana NFD leaves of it
Unvoiced ==
    [c \in { "ga", "gi", "gu", "ge", "go", "da", "de", "do", "ba", "bi", "pa" } |->
        CASE c = "ga" -> "ka" [] c = "gi" -> "ki" [] c = "gu" -> "ku"
          [] c = "ge" -> "ke" [] c = "go" -> "ko" [] c = "da" -> "ta"
          [] c = "de" -> "te" [] c = "do" -> "to" [] c = "ba" -> "ha"
          [] c = "bi" -> "hi" [] c = "pa" -> "ha"]

_normalize_kana(text) ==
    [k \in 1..Len(text) |->
        IF text[k] \in DOMAIN Unvoiced THEN Unvoiced[text[k]] ELSE text[k]]

\* the characters of the dictionary's words outside U+3040..U+309F
NotKana ==
    { "WOODS", "FIELD", "MIDDLE", "BRIGHT", "PERSIMMON", "U+00E3", "U+2022",
      "U+201A", "U+201C", "U+00E5", "U+2026", "U+02C6", "U+00E7", "U+201D",
      "U+0178", "U+00E6", "U+00A7", "U+02DC", "U+203A", "U+00A1", "U+0192",
      "U+00AE", "U+00BF", "U+00B0", "U+00BE" }

\* the score of a kana form for the requested reading, without the
\* distinction between an exact match and a match after normalization
ReadingScoreAlike(kana_text, reading) ==
    IF reading # <<>> /\ kana_text = reading THEN 20
    ELSE IF reading # <<>> /\ kana_text # <<>>
            /\ _normalize_kana(kana_text) = _normalize_kana(reading) THEN 20
    ELSE 0

\* the score of a kana form for the requested reading
ReadingScore(kana_text, reading) ==
    IF reading # <<>> /\ kana_text = reading THEN 20
    ELSE IF reading # <<>> /\ kana_text # <<>>
            /\ _normalize_kana(kana_text) = _normalize_kana(reading) THEN 18
    ELSE 0

RECURSIVE SumOver(_, _)
SumOver(list, k) == IF k > Len(list) THEN 0 ELSE list[k] + SumOver(list, k + 1)

\* the part of an entry's score that the reading decides
ReadingPart(entry, reading) ==
    SumOver([k \in 1..Len(entry.kana) |-> ReadingScore(entry.kana[k].text, reading)], 1)

\* the part of an entry's score that the reading does not decide
BonusPart(entry, word, is_counter) ==
    SumOver([k \in 1..Len(entry.kanji) |->
                IF entry.kanji[k].text = word /\ entry.kanji[k].common THEN 10 ELSE 0], 1)
      + SumOver([k \in 1..Len(entry.kana) |-> IF entry.kana[k].common THEN 5 ELSE 0], 1)
      + (IF /\ entry.sense # <<>>
            /\ \A k \in 1..Len(word) : word[k] \notin NotKana
            /\ "uk" \in entry.sense[1].misc
         THEN 15 ELSE 0)
      + (IF /\ is_counter
            /\ \E k \in 1..Len(entry.sense) : "ctr" \in entry.sense[k].partOfSpeech
         THEN 50 ELSE 0)

Score(entry, word, reading, is_counter) ==
    ReadingPart(entry, reading) + BonusPart(entry, word, is_counter)

\* the loop over the candidates: the first entry no other outscores
Best(entries, word, reading, is_counter) ==
    LET scores == [k \in 1..Len(entries) |-> Score(entries[k], word, reading, is_counter)]
        best == CHOOSE k \in 1..Len(entries) :
                    /\ \A m \in 1..Len(entries) : scores[m] <= scores[k]
                    /\ \A m \in 1..(k - 1) : scores[m] < scores[k]
    IN  entries[best]

\* the candidates of a word: the general index first, the names only if the
\* general index has nothing and the caller asks for names
Entries(word, include_names) ==
    LET general == IF Get(_index_kanji, word) # <<>> THEN Get(_index_kanji, word)
                   ELSE Get(_index_kana, word)
        names == IF Get(_index_names_kanji, word) # <<>>
                 THEN Get(_index_names_kanji, word)
                 ELSE Get(_index_names_kana, word)
    IN  IF general = <<>> /\ include_names THEN names ELSE general

\* the entry, in a one-element list; None is the empty list
_find_best_entry(word, reading, is_counter, include_names) ==
    LET entries == Entries(word, include_names)
    IN  IF entries = <<>> THEN <<>>
        ELSE << Best(entries, word, reading, is_counter) >>

\* list[:3]
Take3(list) == SubSeq(list, 1, IF Len(list) < 3 THEN Len(list) ELSE 3)

\* what a lookup returns when it returns None
None == [found |-> FALSE, meaning |-> <<>>, tags |-> {}]

Found(meaning, tags) == [found |-> TRUE, meaning |-> meaning, tags |-> tags]

\* str.title() of the name types
Title ==
    [t \in { "surname", "given", "place", "fem", "work" } |->
        CASE t = "surname" -> "Surname" [] t = "given" -> "Given"
          [] t = "place" -> "Place" [] t = "fem" -> "Fem" [] t = "work" -> "Work"]

\* the handling of a name entry, the same in lookup and lookup_details
NameDetails(entry) ==
    IF entry.translation = <<>> THEN None
    ELSE IF entry.translation[1].translation = <<>> THEN None
    ELSE Found(Take3(entry.translation[1].translation),
               { "Name" } \cup { Title[entry.translation[1].type[k]] :
                                   k \in 1..Len(entry.translation[1].type) })

\* the sense a lookup reads: the first counter sense for a counter
TargetSense(entry, is_counter) ==
    LET counter_senses == SelectSeq(entry.sense, LAMBDA s : "ctr" \in s.partOfSpeech)
    IN  IF is_counter /\ counter_senses # <<>> THEN counter_senses[1]
        ELSE entry.sense[1]

POS_TAGS ==
    [p \in { "vt", "vi", "uk", "ctr" } |->
        CASE p = "vt" -> "Transitive" [] p = "vi" -> "Intransitive"
          [] p = "uk" -> "Usually Kana" [] p = "ctr" -> "Counter"]

MISC_TAGS ==
    [p \in { "uk", "sl", "col", "hon", "hum", "abbr", "comp", "med", "food" } |->
        CASE p = "uk" -> "Usually Kana" [] p = "sl" -> "Slang"
          [] p = "col" -> "Colloquial" [] p = "hon" -> "Honorific"
          [] p = "hum" -> "Humble" [] p = "abbr" -> "Abbreviation"
          [] p = "comp" -> "Computer" [] p = "med" -> "Medical"
          [] p = "food" -> "Food"]

\* the part-of-speech codes that contain "adj"
AdjectivePos == { "adj-i", "adj-na", "adj-no" }

Tags(sense) ==
    { POS_TAGS[p] : p \in sense.partOfSpeech \cap DOMAIN POS_TAGS }
      \cup (IF (sense.partOfSpeech \ DOMAIN POS_TAGS) \cap AdjectivePos # {}
            THEN { "Adjective" } ELSE {})
      \cup { MISC_TAGS[p] : p \in sense.misc \cap DOMAIN MISC_TAGS }

\* lookup(word, reading, is_counter): the meaning only, names excluded
lookup(word, reading, is_counter) ==
    LET Answered(entry) ==
            IF entry = <<>> THEN None
            ELSE IF entry[1].is_name THEN Found(NameDetails(entry[1]).meaning, {})
            ELSE IF entry[1].sense = <<>> THEN None
            ELSE IF TargetSense(entry[1], is_counter).gloss = <<>> THEN None
            ELSE Found(Take3(TargetSense(entry[1], is_counter).gloss), {})
    IN  Answered(_find_best_entry(word, reading, is_counter, FALSE))

\* the name suffixes as the source file spells them: the bytes of the
\* Japanese suffixes read as Windows-1252 and stored as UTF-8
_NAME_SUFFIXES ==
    << <<"U+00E3", "U+2022", "U+00E3", "U+201A", "U+201C">>,
       <<"U+00E5", "U+2026", "U+02C6", "U+00E7", "U+201D", "U+0178">>,
       <<"U+00E6", "U+00A7", "U+02DC">>,
       <<"U+00E5", "U+203A">>,
       <<"U+00E3", "U+00A1", "U+00E3", "U+201A", "U+0192", "U+00E3", "U+201A", "U+201C">>,
       <<"U+00E6", "U+00AE", "U+00BF">>,
       <<"U+00E6", "U+00B0">>,
       <<"U+00E3", "U+2022", "U+00E3", "U+00BE">> >>

RECURSIVE StripSuffix(_, _, _, _)
\* the loop over the suffixes: entry is what the previous rounds left
StripSuffix(word, is_counter, k, entry) ==
    IF k > Len(_NAME_SUFFIXES) THEN entry
    ELSE IF EndsWith(word, _NAME_SUFFIXES[k]) /\ Len(word) > Len(_NAME_SUFFIXES[k])
    THEN LET After(found) ==
                 IF found # <<>> /\ found[1].is_name THEN found
                 ELSE StripSuffix(word, is_counter, k + 1, found)
         IN  After(_find_best_entry(DropLast(word, Len(_NAME_SUFFIXES[k])), <<>>,
                                    is_counter, TRUE))
    ELSE StripSuffix(word, is_counter, k + 1, entry)

\* lookup_details(word, reading, is_counter): meaning and tags, names included
lookup_details(word, reading, is_counter) ==
    LET Answered(entry) ==
            IF entry = <<>> THEN None
            ELSE IF entry[1].is_name THEN NameDetails(entry[1])
            ELSE IF entry[1].sense = <<>> THEN None
            ELSE Found(Take3(TargetSense(entry[1], is_counter).gloss),
                       Tags(TargetSense(entry[1], is_counter)))
        Fallback(entry) ==
            IF entry = <<>> THEN Answered(StripSuffix(word, is_counter, 1, entry))
            ELSE Answered(entry)
    IN  Fallback(_find_best_entry(word, reading, is_counter, TRUE))

\* lookup_full(word): every entry of the word, names excluded
lookup_full(word) ==
    IF Get(_index_kanji, word) # <<>> THEN Get(_index_kanji, word)
    ELSE Get(_index_kana, word)

----------------------------------------------------------------------------
(* The dictionary's user: a process that constructs the dictionary from    *)
(* the files it finds or downloads, and then looks words up.               *)

HAYASHI == <<"WOODS">>

TANAKA == <<"FIELD", "MIDDLE">>

AKIRA == <<"BRIGHT">>

KAKI == <<"PERSIMMON">>

SAN == <<"sa", "n">>

Woods ==
    WordEntry("woods", <<Form(HAYASHI, TRUE)>>, <<Form(<<"ha", "ya", "shi">>, TRUE)>>,
              <<Sense({ "n" }, {}, <<"woods">>)>>)

\* two entries of one headword whose readings differ in voicing only
Kaki(common) ==
    WordEntry("kaki", <<Form(KAKI, FALSE)>>, <<Form(<<"ka", "ki">>, common)>>,
              <<Sense({ "n" }, {}, <<"persimmon">>)>>)

Gaki(common) ==
    WordEntry("gaki", <<Form(KAKI, FALSE)>>, <<Form(<<"ga", "ki">>, common)>>,
              <<Sense({ "n", "ctr" }, { "uk" }, <<"brat">>)>>)

\* an entry with two kana forms that both lose their mark to kaki
Kagi ==
    WordEntry("kagi", <<Form(KAKI, FALSE)>>,
              <<Form(<<"ka", "gi">>, FALSE), Form(<<"ga", "gi">>, FALSE)>>,
              <<Sense({ "adj-na" }, { "col" }, <<"key">>)>>)

Name(id, kanji, kana, types) ==
    NameEntry(id, <<Form(kanji, FALSE)>>, <<Form(kana, FALSE)>>,
              <<[type |-> types, translation |-> <<id>>]>>)

\* the contents a general file can have
GeneralFiles ==
    { <<>>, <<Woods>>, <<Kagi, Gaki(FALSE)>> }
      \cup { <<Woods, Kaki(c1), Gaki(c2)>> : c1, c2 \in BOOLEAN }
      \cup { <<Gaki(c2), Kaki(c1)>> : c1, c2 \in BOOLEAN }

\* the contents a names file can have
NamesFiles ==
    { <<>>,
      <<Name("Tanaka", TANAKA, <<"ta", "na", "ka">>, <<"place", "surname">>)>>,
      <<Name("Hayashi", HAYASHI, <<"ha", "ya", "shi">>, <<"surname">>),
        Name("Tanaka", TANAKA, <<"ta", "na", "ka">>, <<"surname">>)>>,
      <<Name("Akira", AKIRA, <<"a", "ki", "ra">>, <<"given">>),
        Name("Mei", AKIRA, <<"me", "i">>, <<"surname">>)>> }

Absent == [state |-> "absent", words |-> <<>>]

Corrupt == [state |-> "corrupt", words |-> <<>>]

Good(words) == [state |-> "good", words |-> words]

\* the words the user asks about
AskedWords ==
    LET bare == { HAYASHI, TANAKA, AKIRA, KAKI, <<"ka", "ki">>, <<"ha", "ya", "shi">> }
    IN  bare \cup { w \o SAN : w \in bare }
             \cup { w \o _NAME_SUFFIXES[1] : w \in { HAYASHI, TANAKA } }

\* the readings the user passes; <<>> is None
AskedReadings == { <<>>, <<"ka", "ki">>, <<"ga", "ki">> }

NoCall == [op |-> "none", word |-> <<>>, reading |-> <<>>, is_counter |-> FALSE]

Call(op, word, reading, is_counter) ==
    [op |-> op, word |-> word, reading |-> reading, is_counter |-> is_counter]

DictionaryIdle ==
    /\ _index_kanji = EmptyIndex /\ _index_kana = EmptyIndex
    /\ _index_names_kanji = EmptyIndex /\ _index_names_kana = EmptyIndex
    /\ _loaded = FALSE /\ general_file = Absent /\ names_file = Absent
    /\ asked = NoCall /\ answer = None /\ dpc = "idle"

\* JMDictionary.__init__ up to the call of _find_and_load
DictionaryInput ==
    /\ _index_kanji = EmptyIndex /\ _index_kana = EmptyIndex
    /\ _index_names_kanji = EmptyIndex /\ _index_names_kana = EmptyIndex
    /\ _loaded = FALSE
    /\ general_file \in { Absent, Corrupt } \cup { Good(w) : w \in GeneralFiles }
    /\ names_file \in { Absent, Corrupt } \cup { Good(w) : w \in NamesFiles }
    /\ asked = NoCall /\ answer = None /\ dpc = "start"

\* _load(path) on a readable file
_load(words) ==
    /\ _index_kanji' = IndexKanji(_index_kanji, words, 1)
    /\ _index_kana' = IndexKana(_index_kana, words, 1)
    /\ _loaded' = TRUE

\* _load_names(path) on a readable file
_load_names(words) ==
    /\ _index_names_kanji' = IndexKanji(_index_names_kanji, words, 1)
    /\ _index_names_kana' = IndexKana(_index_names_kana, words, 1)

\* what a download can end in: no file, an unreadable file, or a file
Downloads(files) == { Absent, Corrupt } \cup { Good(w) : w \in files }

\* _find_and_load(): the first existing path is loaded with no handler
\* around it; a download is tried only when no path exists
_find_and_load(download) ==
    /\ dpc = "start"
    /\ IF general_file.state = "good"
       THEN /\ download = Absent
            /\ _load(general_file.words) /\ dpc' = "general"
            /\ UNCHANGED general_file
       ELSE IF general_file.state = "corrupt"
       THEN /\ download = Absent
            /\ dpc' = "raised"
            /\ UNCHANGED <<_index_kanji, _index_kana, _loaded, general_file>>
       ELSE /\ general_file' = download
            /\ dpc' = "general"
            /\ IF download.state = "good" THEN _load(download.words)
               ELSE UNCHANGED <<_index_kanji, _index_kana, _loaded>>
    /\ UNCHANGED <<_index_names_kanji, _index_names_kana, names_file, asked, answer>>
    /\ UNCHANGED <<engineVars, matcherVars, pipelineVars, instanceVars, helperVars>>

\* _find_and_load_names(): loading and downloading are both guarded; a
\* local file that fails to load is followed by the download
_find_and_load_names(download) ==
    /\ dpc = "general"
    /\ IF names_file.state = "good"
       THEN /\ download = Absent
            /\ _load_names(names_file.words)
            /\ UNCHANGED names_file
       ELSE /\ names_file' = IF download.state = "absent" THEN names_file
                             ELSE download
            /\ IF download.state = "good" THEN _load_names(download.words)
               ELSE UNCHANGED <<_index_names_kanji, _index_names_kana>>
    /\ dpc' = "constructed"
    /\ UNCHANGED <<_index_kanji, _index_kana, _loaded, general_file, asked, answer>>
    /\ UNCHANGED <<engineVars, matcherVars, pipelineVars, instanceVars, helperVars>>

\* a dict.get that inserts an empty list for a missing key
ReadSetDefault(index, key) ==
    IF key \in DOMAIN index THEN index ELSE index @@ (key :> <<>>)

\* what dict.get(key) leaves of the dict
Read(index, key) == index

\* the user calls one of the lookups on the constructed dictionary; the
\* indices are only read
Lookup(op, word, reading, is_counter) ==
    /\ dpc = "constructed"
    /\ asked' = Call(op, word, reading, is_counter)
    /\ answer' =
         CASE op = "lookup" -> lookup(word, reading, is_counter)
           [] op = "lookup_details" -> lookup_details(word, reading, is_counter)
           [] op = "lookup_full" ->
                IF lookup_full(word) = <<>> THEN None
                ELSE Found([k \in 1..Len(lookup_full(word)) |-> lookup_full(word)[k].id], {})
           [] op = "_find_best_entry" ->
                IF _find_best_entry(word, reading, is_counter, FALSE) = <<>> THEN None
                ELSE Found(<<_find_best_entry(word, reading, is_counter, FALSE)[1].id>>, {})
    /\ _index_kanji' = Read(_index_kanji, word)
    /\ _index_kana' = Read(_index_kana, word)
    /\ _index_names_kanji' = Read(_index_names_kanji, word)
    /\ _index_names_kana' = Read(_index_names_kana, word)
    /\ dpc' = "answered"
    /\ UNCHANGED <<_loaded, general_file, names_file>>
    /\ UNCHANGED <<engineVars, matcherVars, pipelineVars, instanceVars, helperVars>>

LookupOps == { "lookup", "lookup_details", "lookup_full", "_find_best_entry" }
----------------------------------------------------------------------------
(* The callers of get_instance.  Both get_instance methods are class       *)
(* methods under functools.lru_cache(maxsize=1): a caller that finds the   *)
(* cache empty runs cls() itself, and the cache keeps the result of the    *)
(* caller that finishes first; the others return what they built.          *)

\* the callers that can be inside get_instance at once
MaxCallers == 3

Callers == 1..MaxCallers

\* a cache of one slot: <<>> when empty, <<v>> when it holds v
EmptyCache == <<>>

Store(cache, v) == IF cache = EmptyCache THEN <<v>> ELSE cache

\* a JapaneseAnalyzer: who built it, and the dictionary it holds
Analyzer(by, dict) == [by |-> by, _jmdict |-> dict]

At(t, where, dict) == [tpc EXCEPT ![t] = [at |-> where, _jmdict |-> dict]]

InstanceIdle ==
    /\ analyzer_cache = EmptyCache /\ jmdict_cache = EmptyCache
    /\ tpc = <<>> /\ got = <<>> /\ built = 0

\* no instance exists yet and every caller is about to call
\* JapaneseAnalyzer.get_instance
InstanceInput ==
    /\ analyzer_cache = EmptyCache /\ jmdict_cache = EmptyCache
    /\ tpc = [t \in Callers |-> [at |-> "call", _jmdict |-> 0]]
    /\ got = [t \in Callers |-> <<>>]
    /\ built = 0

\* the application's startup: JapaneseAnalyzer.get_instance() runs to its
\* end before any request is served
lifespan ==
    /\ built = 0 /\ analyzer_cache = EmptyCache
    /\ \A t \in Callers : tpc[t].at = "call"
    /\ built' = 1
    /\ jmdict_cache' = <<1>>
    /\ analyzer_cache' = <<Analyzer(0, 1)>>
    /\ UNCHANGED <<tpc, got>>
    /\ UNCHANGED <<engineVars, matcherVars, pipelineVars, dictVars, helperVars>>

\* JapaneseAnalyzer.get_instance finds the cached analyzer
analyzer_hit(t) ==
    /\ tpc[t].at = "call" /\ analyzer_cache # EmptyCache
    /\ got' = [got EXCEPT ![t] = <<analyzer_cache[1]>>]
    /\ tpc' = At(t, "returned", analyzer_cache[1]._jmdict)
    /\ UNCHANGED <<analyzer_cache, jmdict_cache, built>>
    /\ UNCHANGED <<engineVars, matcherVars, pipelineVars, dictVars, helperVars>>

\* JapaneseAnalyzer.get_instance finds the cache empty and enters __init__
analyzer_miss(t) ==
    /\ tpc[t].at = "call" /\ analyzer_cache = EmptyCache
    /\ tpc' = At(t, "__init__", 0)
    /\ UNCHANGED <<analyzer_cache, jmdict_cache, got, built>>
    /\ UNCHANGED <<engineVars, matcherVars, pipelineVars, dictVars, helperVars>>

\* JMDictionary.get_instance finds the cached dictionary
jmdict_hit(t) ==
    /\ tpc[t].at = "__init__" /\ jmdict_cache # EmptyCache
    /\ tpc' = At(t, "made", jmdict_cache[1])
    /\ UNCHANGED <<analyzer_cache, jmdict_cache, got, built>>
    /\ UNCHANGED <<engineVars, matcherVars, pipelineVars, dictVars, helperVars>>

\* JMDictionary.get_instance finds the cache empty and calls cls(): the
\* file load or download begins
jmdict_miss(t) ==
    /\ tpc[t].at = "__init__" /\ jmdict_cache = EmptyCache
    /\ tpc' = At(t, "cls", 0)
    /\ UNCHANGED <<analyzer_cache, jmdict_cache, got, built>>
    /\ UNCHANGED <<engineVars, matcherVars, pipelineVars, dictVars, helperVars>>

\* cls() returns a new dictionary; the cache takes it if it is still empty,
\* and the caller goes on with the one it built
jmdict_made(t) ==
    /\ tpc[t].at = "cls"
    /\ built' = built + 1
    /\ jmdict_cache' = Store(jmdict_cache, built + 1)
    /\ tpc' = At(t, "made", built + 1)
    /\ UNCHANGED <<analyzer_cache, got>>
    /\ UNCHANGED <<engineVars, matcherVars, pipelineVars, dictVars, helperVars>>

\* JapaneseAnalyzer.__init__ ends; the cache takes the analyzer if it is
\* still empty, and the caller receives the one it built
analyzer_made(t) ==
    /\ tpc[t].at = "made"
    /\ analyzer_cache' = Store(analyzer_cache, Analyzer(t, tpc[t]._jmdict))
    /\ got' = [got EXCEPT ![t] = <<Analyzer(t, tpc[t]._jmdict)>>]
    /\ tpc' = At(t, "returned", tpc[t]._jmdict)
    /\ UNCHANGED <<jmdict_cache, built>>
    /\ UNCHANGED <<engineVars, matcherVars, pipelineVars, dictVars, helperVars>>
----------------------------------------------------------------------------
(* The hint generator (services/conjugation/helpers.py).  English text is  *)
(* a sequence of characters too, one letter, blank or mark per element.    *)

\* sub in s
HasSub(s, sub) ==
    \E k \in 0..(Len(s) - Len(sub)) : SubSeq(s, k + 1, k + Len(sub)) = sub

\* s.replace(old, new): every occurrence, left to right
RECURSIVE Replace(_, _, _)
Replace(s, old, new) ==
    IF Len(s) < Len(old) THEN s
    ELSE IF SubSeq(s, 1, Len(old)) = old
    THEN new \o Replace(SubSeq(s, Len(old) + 1, Len(s)), old, new)
    ELSE <<s[1]>> \o Replace(Tail(s), old, new)

\* s.split(c)[0]
RECURSIVE UpTo(_, _)
UpTo(s, c) ==
    IF s = <<>> \/ s[1] = c THEN <<>> ELSE <<s[1]>> \o UpTo(Tail(s), c)

RECURSIVE LStrip(_)
LStrip(s) == IF s # <<>> /\ s[1] = " " THEN LStrip(Tail(s)) ELSE s

RECURSIVE RStrip(_)
RStrip(s) == IF s # <<>> /\ s[Len(s)] = " " THEN RStrip(DropLast(s, 1)) ELSE s

\* s.strip()
Strip(s) == RStrip(LStrip(s))

\* s.split()[0]: the first word, IndexError when s holds no word
FirstWord(s) ==
    IF LStrip(s) = <<>> THEN Raise("IndexError") ELSE Ok(UpTo(LStrip(s), " "))

\* s.lower()
Lower(s) ==
    [k \in 1..Len(s) |->
        CASE s[k] = "G" -> "g" [] s[k] = "T" -> "t" [] OTHER -> s[k]]

\* lemminflect's getInflection(verb, tag='VBD') for the words of the
\* glosses used here; a word it has no form for falls to the regular rule
VBD ==
    [x \in { <<"g", "o">>, <<"e", "a", "t">>, <<"s", "i", "n", "g">>, <<"s", "e", "e">> } |->
        CASE x = <<"g", "o">> -> <<"w", "e", "n", "t">>
          [] x = <<"e", "a", "t">> -> <<"a", "t", "e">>
          [] x = <<"s", "i", "n", "g">> -> <<"s", "a", "n", "g">>
          [] x = <<"s", "e", "e">> -> <<"s", "a", "w">>]

Vowels == { "a", "e", "i", "o", "u" }

_make_regular_past(v) ==
    IF EndsWith(v, <<"e">>) THEN v \o <<"d">>
    ELSE IF EndsWith(v, <<"y">>) /\ Len(v) > 1 /\ v[Len(v) - 1] \notin Vowels
    THEN DropLast(v, 1) \o <<"i", "e", "d">>
    ELSE v \o <<"e", "d">>

_inflect_past(v) == IF v \in DOMAIN VBD THEN VBD[v] ELSE _make_regular_past(v)

make_past_tense(text) ==
    LET v == Strip(Lower(text))
        Past(word) == IF Raised(word) THEN word ELSE Ok(_inflect_past(word.out))
        Didnt(word) == IF Raised(word) THEN word ELSE Ok(<<"d", "i", "d", "n", "'", "t", " ">> \o word.out)
    IN  IF StartsWith(v, <<"t", "o", " ">>)
        THEN IF Len(v) > 3 THEN Past(FirstWord(SubSeq(v, 4, Len(v))))
             ELSE Ok(_inflect_past(v))
        ELSE IF StartsWith(v, <<"n", "o", "t", " ">>)
        THEN IF Len(v) > 4 THEN Didnt(FirstWord(SubSeq(v, 5, Len(v))))
             ELSE Ok(<<"d", "i", "d", "n", "'", "t", " ">> \o v)
        ELSE Past(FirstWord(v))

\* the value patterns of the match on the auxiliary, in the order they are
\* tried; a pattern is looked up on the Auxiliary class when the match
\* reaches it
AuxiliaryCases ==
    << {"POTENTIAL"}, {"RERU_RARERU"}, {"NAI"}, {"TAI"}, {"TE_IRU"},
       {"SERU_SASERU", "SHORTENED_CAUSATIVE"}, {"MIRU"}, {"SHIMAU"}, {"NASAI"},
       {"MASU"} >>

\* the first case that takes aux, 0 for the wildcard, or -1 when a pattern
\* before it names no member of Auxiliary (AttributeError)
RECURSIVE MatchedCase(_, _)
MatchedCase(aux, k) ==
    IF k > Len(AuxiliaryCases) THEN 0
    ELSE IF ~(AuxiliaryCases[k] \subseteq Auxiliary) THEN -1
    ELSE IF aux \in AuxiliaryCases[k] THEN k
    ELSE MatchedCase(aux, k + 1)

\* one turn of the loop over the auxiliaries
HintStep(h, aux, t2) ==
    LET Case(k) ==
            CASE k = -1 -> Raise("AttributeError")
              [] k = 1 -> Ok(<<"c", "a", "n", " ">> \o h)
              [] k = 2 -> IF t2 THEN Ok(<<"c", "a", "n", " ">> \o h) ELSE Ok(<<"i", "s", " ">> \o h)
              [] k = 3 -> Ok(<<"n", "o", "t", " ">> \o h)
              [] k = 4 -> Ok(<<"w", "a", "n", "t", " ", "t", "o", " ">> \o h)
              [] k = 5 -> Ok(<<"i", "s", " ">> \o h \o <<"i", "n", "g">>)
              [] k = 6 -> Ok(<<"m", "a", "k", "e", "/", "l", "e", "t", " ">> \o h)
              [] k = 7 -> Ok(<<"t", "r", "y", " ", "t", "o", " ">> \o h)
              [] k = 8 -> Ok(<<"e", "n", "d", " ", "u", "p", " ">> \o h \o <<"i", "n", "g">>)
              [] k = 9 -> Ok(<<"p", "l", "e", "a", "s", "e", " ">> \o h)
              [] OTHER -> Ok(h)
    IN  Case(MatchedCase(aux, 1))

RECURSIVE HintLoop(_, _, _, _)
HintLoop(r, auxiliaries, k, t2) ==
    IF Raised(r) \/ k > Len(auxiliaries) THEN r
    ELSE HintLoop(HintStep(r.out, auxiliaries[k], t2), auxiliaries, k + 1, t2)

\* the match on the terminal conjugation
HintEnd(h, conjugation) ==
    LET Unmarked == Replace(Replace(h, <<"n", "o", "t", " ">>, <<>>), <<"c", "a", "n", " ">>, <<>>)
        TaraPast(p) == IF Raised(p) THEN p ELSE Ok(<<"w", "h", "e", "n", "/", "i", "f", " ">> \o p.out)
    IN  CASE conjugation \in {"NEGATIVE", "ZU", "NU"} ->
               IF StartsWith(h, <<"c", "a", "n", " ">>) THEN Ok(Replace(h, <<"c", "a", "n", " ">>, <<"c", "a", "n", "n", "o", "t", " ">>))
               ELSE Ok(<<"n", "o", "t", " ">> \o h)
          [] conjugation = "TA" ->
               IF EndsWith(h, <<"i", "n", "g">>) THEN Ok(h)
               ELSE IF HasSub(h, <<"c", "a", "n", " ">>) /\ HasSub(h, <<"n", "o", "t">>)
               THEN Ok(<<"c", "o", "u", "l", "d", "n", "'", "t", " ">> \o Unmarked)
               ELSE IF HasSub(h, <<"n", "o", "t">>) THEN Ok(<<"d", "i", "d", "n", "'", "t", " ">> \o Unmarked)
               ELSE IF HasSub(h, <<"c", "a", "n", " ">>) THEN Ok(<<"c", "o", "u", "l", "d", " ">> \o Replace(h, <<"c", "a", "n", " ">>, <<>>))
               ELSE make_past_tense(h)
          [] conjugation = "TE" -> Ok(h \o <<" ", "a", "n", "d", ".", ".", ".">>)
          [] conjugation = "CONDITIONAL" -> Ok(<<"i", "f", " ">> \o h)
          [] conjugation = "TARA" ->
               IF HasSub(h, <<"n", "o", "t">>) THEN Ok(<<"i", "f", " ", "n", "o", "t", " ">> \o Replace(h, <<"n", "o", "t", " ">>, <<>>))
               ELSE TaraPast(make_past_tense(h))
          [] conjugation = "VOLITIONAL" -> Ok(<<"l", "e", "t", "'", "s", " ">> \o h)
          [] conjugation = "IMPERATIVE" -> Ok(h \o <<"!">>)
          [] OTHER -> Ok(h)

generate_translation_hint(meaning, auxiliaries, conjugation, t2) ==
    LET first_meaning == Strip(UpTo(UpTo(meaning, ";"), ","))
        Stem(m) == IF StartsWith(m, <<"t", "o", " ">>) THEN SubSeq(m, 4, Len(m)) ELSE m
        End(r) == IF Raised(r) THEN r ELSE HintEnd(r.out, conjugation)
    IN  IF meaning = <<>> THEN Ok(<<>>)
        ELSE End(HintLoop(Ok(Stem(first_meaning)), auxiliaries, 1, t2))

\* the glosses handed to the hint generator; <<>> is an entry without gloss
Glosses ==
    { <<>>, <<"t", "o", " ", "g", "o">>, <<"t", "o", " ", "e", "a", "t", ";", " ", "t", "o", " ", "c", "o", "n", "s", "u", "m", "e">>, <<"t", "o", " ", "n", "o", "t", "i", "c", "e">>, <<"t", "o", " ", "s", "i", "n", "g">>,
      <<"t", "o", " ", "s", "c", "a", "n", " ", "f", "i", "l", "e", "s">>, <<"t", "o", " ", "s", "t", "u", "d", "y">> }

\* the auxiliary chains handed to it
HintChains ==
    { <<>>, <<"MASU">>, <<"NAI">>, <<"NAI", "MASU">>, <<"POTENTIAL">>,
      <<"POTENTIAL", "MASU">>, <<"POTENTIAL", "NAI">>, <<"RERU_RARERU">>,
      <<"TE_IRU">>, <<"TE_IRU", "MASU">>, <<"SHIMAU">>, <<"TAI">>, <<"MIRU">>,
      <<"TAGARU">> }

\* the terminal conjugations handed to it
HintConjugations == { "DICTIONARY", "TA", "NEGATIVE", "TE", "TARA" }

----------------------------------------------------------------------------
(* The fallback class heuristic: verb.py's identify_verb_type and the      *)
(* except branch of conjugate_word.                                        *)

RU == <<"ru">>

\* the characters of identify_verb_type's string literal
IdentifyKana ==
    { "i", "ki", "shi", "chi", "ni", "hi", "mi", "ri", "gi", "ji", "bi", "pi",
      "e", "ke", "se", "te", "ne", "he", "me", "re", "ge", "ze", "be", "pe" }

\* pre_ru in "...": pre_ru is one character of the literal, or the empty
\* string, which every string contains
identify_verb_type(v) ==
    IF EndsWith(v, RU)
    THEN IF Len(v) >= 2 THEN v[Len(v) - 1] \in IdentifyKana ELSE TRUE
    ELSE FALSE

\* the characters of conjugate_word's string literal
FallbackKana ==
    { "i", "ki", "shi", "chi", "ni", "hi", "mi", "ri",
      "e", "ke", "se", "te", "ne", "he", "me", "re" }

\* what the segmenter does with the word: it raises, or it returns a first
\* morpheme whose part of speech names the ichidan class or does not
Segmenters == { "raised", "ichidan", "other" }

\* conjugate_word's type2 for word_type "verb"
conjugate_word_type2(word, segmenter) ==
    IF EndsWith(word, RU) /\ Len(word) >= 2
    THEN IF segmenter = "raised" THEN word[Len(word) - 1] \in FallbackKana
         ELSE segmenter = "ichidan"
    ELSE FALSE

\* the lemmas handed to the heuristic
Lemmas ==
    { RU, <<"mi", "ru">>, <<"ta", "be", "ru">>, <<"de", "ru">>,
      <<"to", "dji", "ru">>, <<"ka", "e", "ru">>, <<"a", "ru">>, <<"su", "ru">>,
      <<"ka", "ku">>, <<"EAT", "be", "ru">>, <<"SEE", "ru">>, <<"o", "ki", "ru">>,
      <<"a", "ge", "ru">>, <<>> }

NoGuess == [identify_verb_type |-> FALSE, conjugate_word |-> FALSE, segmenter |-> "none"]

----------------------------------------------------------------------------
(* The caller of the two helpers *)

HelperIdle ==
    /\ base_meaning = <<>> /\ hint_auxiliaries = <<>>
    /\ hint_conjugation = "DICTIONARY" /\ hint_type2 = FALSE /\ hint = NoResult
    /\ lemma = <<>> /\ guess = NoGuess /\ hpc = "idle"

\* try_deconjugate_verb is about to call generate_translation_hint
HintInput ==
    /\ base_meaning \in Glosses /\ hint_auxiliaries \in HintChains
    /\ hint_conjugation \in HintConjugations /\ hint_type2 \in BOOLEAN
    /\ hint = NoResult /\ lemma = <<>> /\ guess = NoGuess /\ hpc = "hint"

\* a caller is about to ask for the class of a lemma
ClassInput ==
    /\ base_meaning = <<>> /\ hint_auxiliaries = <<>>
    /\ hint_conjugation = "DICTIONARY" /\ hint_type2 = FALSE /\ hint = NoResult
    /\ lemma \in Lemmas /\ guess = NoGuess /\ hpc = "class"

Hint ==
    /\ hpc = "hint"
    /\ hint' = generate_translation_hint(base_meaning, hint_auxiliaries,
                                         hint_conjugation, hint_type2)
    /\ hpc' = "done"
    /\ UNCHANGED <<base_meaning, hint_auxiliaries, hint_conjugation, hint_type2,
                   lemma, guess>>
    /\ UNCHANGED <<engineVars, matcherVars, pipelineVars, dictVars, instanceVars>>

Classify(segmenter) ==
    /\ hpc = "class"
    /\ guess' = [identify_verb_type |-> identify_verb_type(lemma),
                 conjugate_word |-> conjugate_word_type2(lemma, segmenter),
                 segmenter |-> segmenter]
    /\ hpc' = "done"
    /\ UNCHANGED <<base_meaning, hint_auxiliaries, hint_conjugation, hint_type2,
                   hint, lemma>>
    /\ UNCHANGED <<engineVars, matcherVars, pipelineVars, dictVars, instanceVars>>
----------------------------------------------------------------------------
(* The specifications.  Spec is one request of any view on any morpheme    *)
(* list; SpecRequests is one process serving several requests; the next    *)
(* three drive the pure functions of the engine and of the matcher;         *)
(* SpecDictionary constructs a dictionary and asks it one word;            *)
(* SpecInstance lets several callers into get_instance; SpecSearch calls   *)
(* the search of the engine directly; SpecHelpers drives the hint          *)
(* generator and the class heuristics; SpecAuxiliary calls the forward     *)
(* engine with every one-auxiliary chain; SpecLoop is one sentence request    *)
(* that keeps running: the interpreter executes the next iteration, or the *)
(* return, whenever there is one.                                          *)

AllOutcomes == VerbOutcomes \cup AdjectiveOutcomes \cup { "unused" }

AllLooked == LookupOutcomes \cup { "unused" }

Init ==
    /\ EngineIdle /\ MatcherIdle /\ DictionaryIdle /\ InstanceIdle /\ HelperIdle
    /\ (PipelineInput(Sentences(MaxMorphemes) \cup PhraseTexts) \/ WordInput)

Next ==
    \/ \E outcome \in AllOutcomes, looked \in AllLooked : analyze_text(outcome, looked)
    \/ \E outcome \in AllOutcomes, looked \in AllLooked : analyze_simple(outcome, looked)
    \/ \E outcome \in AllOutcomes, looked \in AllLooked : analyze_full(outcome, looked)
    \/ Return
    \/ \E given_form \in GivenForms, word_type \in WordTypes,
          outcome \in AllOutcomes, looked \in AllLooked :
            deconjugate_word(given_form, word_type, outcome, looked)

Spec == Init /\ [][Next]_vars

InitRequests == EngineIdle /\ MatcherIdle /\ DictionaryIdle /\ InstanceIdle /\ HelperIdle /\ PipelineInput(RepeatTexts)

NextRequests ==
    \/ \E outcome \in AllOutcomes, looked \in AllLooked : analyze_text(outcome, looked)
    \/ \E outcome \in AllOutcomes, looked \in AllLooked : analyze_simple(outcome, looked)
    \/ \E outcome \in AllOutcomes, looked \in AllLooked : analyze_full(outcome, looked)
    \/ Return
    \/ \E v \in Views, text \in RepeatTexts : NextRequest(v, text)

SpecRequests == InitRequests /\ [][NextRequests]_vars

InitMatcher ==
    EngineIdle /\ PipelineIdle /\ DictionaryIdle /\ InstanceIdle /\ HelperIdle /\ MatcherInput

NextMatcher == \E k \in 1..(Len(segments) + 1) : Match(k)

SpecMatcher == InitMatcher /\ [][NextMatcher]_vars

InitForward ==
    /\ MatcherIdle /\ PipelineIdle /\ DictionaryIdle /\ InstanceIdle /\ HelperIdle
    /\ EngineInput(ForwardVerbs, Conjugation, {<<>>})

NextForward ==
    \/ \E a \in ChainAux : AppendAux(a)
    \/ Forward

SpecForward == InitForward /\ [][NextForward]_vars

InitRoundTrip ==
    /\ MatcherIdle /\ PipelineIdle /\ DictionaryIdle /\ InstanceIdle /\ HelperIdle
    /\ EngineInput(RoundTripVerbs, RoundTripConj, RoundTripChains)

NextRoundTrip ==
    \/ Forward
    \/ \E s \in Range(fwd.out), d \in 0..MaxAuxDepth : Deconjugate(s, d)

SpecRoundTrip == InitRoundTrip /\ [][NextRoundTrip]_vars


InitDictionary == EngineIdle /\ MatcherIdle /\ PipelineIdle /\ InstanceIdle /\ HelperIdle /\ DictionaryInput

NextDictionary ==
    \/ \E download \in Downloads(GeneralFiles) : _find_and_load(download)
    \/ \E download \in Downloads(NamesFiles) : _find_and_load_names(download)
    \/ \E op \in LookupOps, word \in AskedWords, reading \in AskedReadings,
          is_counter \in BOOLEAN : Lookup(op, word, reading, is_counter)

SpecDictionary == InitDictionary /\ [][NextDictionary]_vars

InitInstance == EngineIdle /\ MatcherIdle /\ PipelineIdle /\ DictionaryIdle /\ HelperIdle /\ InstanceInput

NextInstance ==
    \/ lifespan
    \/ \E t \in Callers :
          \/ analyzer_hit(t)
          \/ analyzer_miss(t)
          \/ jmdict_hit(t)
          \/ jmdict_miss(t)
          \/ jmdict_made(t)
          \/ analyzer_made(t)

SpecInstance == InitInstance /\ [][NextInstance]_vars

InitSearch ==
    /\ MatcherIdle /\ PipelineIdle /\ DictionaryIdle /\ InstanceIdle /\ HelperIdle
    /\ EngineInput(SearchVerbs, { "DICTIONARY" }, { <<>> })

NextSearch ==
    \E s \in SearchSurfaces, d \in 0..MaxAuxDepth : DeconjugateDirect(s, d)

SpecSearch == InitSearch /\ [][NextSearch]_vars

InitHelpers ==
    /\ EngineIdle /\ MatcherIdle /\ PipelineIdle /\ DictionaryIdle /\ InstanceIdle
    /\ (HintInput \/ ClassInput)

NextHelpers ==
    \/ Hint
    \/ \E segmenter \in Segmenters : Classify(segmenter)

SpecHelpers == InitHelpers /\ [][NextHelpers]_vars

\* the verbs of the regular classes: ichidan, godan
RegularVerbs ==
    { [v |-> EAT, t2 |-> TRUE], [v |-> BUY, t2 |-> FALSE],
      [v |-> WRITE, t2 |-> FALSE] }

\* every chain of one auxiliary
SingleChains == { <<a>> : a \in Auxiliary }

InitAuxiliary ==
    /\ MatcherIdle /\ PipelineIdle /\ DictionaryIdle /\ InstanceIdle /\ HelperIdle
    /\ EngineInput(ForwardVerbs, Conjugation, SingleChains)

NextAuxiliary == Forward

SpecAuxiliary == InitAuxiliary /\ [][NextAuxiliary]_vars

\* the longest sentence drawn from the whole lexicon for SpecLoop
LoopMorphemes == 2

InitLoop ==
    /\ EngineIdle /\ MatcherIdle /\ DictionaryIdle /\ InstanceIdle /\ HelperIdle
    /\ PipelineInput(Sentences(LoopMorphemes) \cup PhraseTexts \cup RepeatTexts)

NextLoop ==
    \/ \E outcome \in AllOutcomes, looked \in AllLooked : analyze_text(outcome, looked)
    \/ \E outcome \in AllOutcomes, looked \in AllLooked : analyze_simple(outcome, looked)
    \/ \E outcome \in AllOutcomes, looked \in AllLooked : analyze_full(outcome, looked)
    \/ Return

SpecLoop == InitLoop /\ [][NextLoop]_vars /\ WF_vars(NextLoop)
----------------------------------------------------------------------------
(* Properties of the conjugation engine *)

\* the forward call has returned a list of surfaces
Accepted == vpc \in {"forward", "done"} /\ IsOk(fwd)

HasHit(list, chain, c) ==
    \E k \in 1..Len(list) : list[k].auxiliaries = chain /\ list[k].conjugation = c

\* C1: round trip.  Whenever the forward engine returns surfaces without
\* error the list is not empty, and deconjugating any returned surface with a
\* depth bound of at least the chain's length yields a hit whose auxiliaries
\* are the chain and whose conjugation is the terminal conjugation.
C1_RoundTrip ==
    /\ Accepted => Len(fwd.out) >= 1
    /\ (vpc = "done" /\ depth >= Len(auxs)) =>
            IsOk(hits) /\ HasHit(hits.out, auxs, conj)

\* C2: the forward engine never produces the empty string: every surface of
\* an accepted call has length at least 1.
C2_NoEmptySurface ==
    Accepted => \A k \in 1..Len(fwd.out) : Len(fwd.out[k]) >= 1

\* C3: with an empty chain and the terminal conjugation DICTIONARY the
\* forward engine returns exactly the list [V] for every verb V it accepts.
C3_DictionaryIsIdentity ==
    (Accepted /\ auxs = <<>> /\ conj = "DICTIONARY") => fwd.out = <<verb>>

\* a terminal-only auxiliary stands before the end of the chain
TerminalNotLast == \E k \in 1..(Len(auxs) - 1) : auxs[k] \in final_only

\* C4: conjugate_auxiliaries raises and returns no surfaces whenever the
\* chain holds a terminal-only auxiliary at a position other than the last.
C4_TerminalOnlyRaises ==
    (vpc = "forward" /\ TerminalNotLast) => (Raised(fwd) /\ fwd.out = <<>>)

\* C4 happens: a regular verb, a chain whose first of two auxiliaries is
\* terminal-only, and the call has raised ValueError.
C4_Witness ==
    /\ vpc = "forward" /\ verb = EAT /\ Len(auxs) = 2
    /\ auxs[1] \in final_only /\ auxs[2] = "MASU"
    /\ fwd.err = "ValueError"

\* x comes before y in the lexicographic order of two equally long tuples
LexLess(x, y) ==
    \E k \in 1..Len(x) :
        /\ x[k] < y[k]
        /\ \A m \in 1..(k - 1) : x[m] = y[m]

\* where a hit stands among the candidates of its depth: the position of
\* each auxiliary in the list its loop iterates, then the conjugation's
SearchKey(h) ==
    LET a == h.auxiliaries
        c == IndexIn(ConjugationEnum, h.conjugation)
    IN  CASE Len(a) = 0 -> <<c>>
          [] Len(a) = 1 -> <<IndexIn(AuxiliaryEnum, a[1]), c>>
          [] Len(a) = 2 -> <<IndexIn(penultimates, a[1]),
                             IndexIn(depth2_finals, a[2]), c>>
          [] OTHER -> <<IndexIn(antepenultimates, a[1]),
                        IndexIn(penultimates, a[2]),
                        IndexIn(depth3_finals, a[3]), c>>

\* the same with every auxiliary ranked by its place in the Auxiliary enum
DeclarationKey(h) ==
    [k \in 1..(Len(h.auxiliaries) + 1) |->
        IF k <= Len(h.auxiliaries) THEN IndexIn(AuxiliaryEnum, h.auxiliaries[k])
        ELSE IndexIn(ConjugationEnum, h.conjugation)]

Shallower(g, h) == Len(g.auxiliaries) < Len(h.auxiliaries)

SameDepth(g, h) == Len(g.auxiliaries) = Len(h.auxiliaries)

RareNakatta(v) == DropLast(v, 1) \o <<"ra", "re", "na", "ka", "xtsu", "ta">>

\* the driver called deconjugate_verb with the default depth on the passive
\* negative past of the ichidan verb it holds
PassiveNegativePast ==
    /\ vpc = "done" /\ type2 /\ EndsWith(verb, <<"ru">>) /\ Len(verb) > 1
    /\ given = RareNakatta(verb)
    /\ depth = MaxAuxDepth

\* C15: for an ichidan stem s, deconjugate_verb(s + rarenakatta, s + ru,
\* ichidan) returns a non-empty list whose first hit has the auxiliaries
\* [RERU_RARERU, NAI] and the conjugation TA.
C15_PassiveNegativePast ==
    PassiveNegativePast =>
        /\ IsOk(hits)
        /\ hits.out # <<>>
        /\ hits.out[1].auxiliaries = <<"RERU_RARERU", "NAI">>
        /\ hits.out[1].conjugation = "TA"

\* C15 happens: the search was run on a one-character stem's passive
\* negative past and returned a hit.
C15_Witness ==
    /\ PassiveNegativePast
    /\ verb = SEE
    /\ IsOk(hits) /\ hits.out # <<>>

----------------------------------------------------------------------------
(* One-auxiliary chains of the forward engine.                             *)

\* the te-form of the verb, where it has one
TeForm(v, t2) == conjugate(v, "TE", t2)

\* C25: a te-aspectual compound inherits the class of its auxiliary: for
\* every verb V but the copula, conjugate_auxiliaries(V, [Iku], Ta) contains
\* te-form(V) + itta, the past of iku with its sound-change exception.
C25_IkuCompoundUsesException ==
    (/\ vpc = "forward" /\ auxs = <<"IKU">> /\ conj = "TA"
     /\ verb \notin { DA, DESU } /\ IsOk(TeForm(verb, type2)))
        => /\ IsOk(fwd)
           /\ (TeForm(verb, type2).out[1] \o <<"i", "xtsu", "ta">>)
                  \in Range(fwd.out)

\* the forward engine returns a surface for auxiliary a on some regular
\* verb with some terminal conjugation
Applicable(a) ==
    \E x \in RegularVerbs, k \in Conjugation :
        LET With(r) == IsOk(r) /\ Len(r.out) >= 1
        IN  With(conjugate_auxiliaries(x.v, <<a>>, k, x.t2))

\* C26: every member of the Auxiliary enumeration is applicable by the
\* forward engine: the auxiliary of a one-auxiliary call gives at least one
\* surface on some regular verb with some terminal conjugation.
C26_EveryAuxiliaryApplicable ==
    (vpc = "forward" /\ Len(auxs) = 1) => Applicable(auxs[1])
----------------------------------------------------------------------------
(* Properties of the phrase matcher *)

\* the matcher was called at a position of the list and returned a phrase
Matched == mpc = "done" /\ matched.found

\* C5: whenever the matcher returns (phrase, meaning, consumed) at a
\* position, the surfaces of the consumed morphemes joined are exactly the
\* phrase text, whatever the segmentation.
C5_ConsumedIsPhrase ==
    Matched =>
        Compound(segments, start_idx, start_idx + matched.consumed) = matched.phrase

StrictPrefix(p, q) == Len(p) < Len(q) /\ StartsWith(q, p)

\* p1 and p2 are phrases of the bucket of key, p1 a strict prefix of p2, and
\* the text begins with p2
PrefixPairIn(key, p1, p2, text) ==
    /\ \E a \in 1..Len(Bucket(key)) : Bucket(key)[a].phrase = p1
    /\ \E b \in 1..Len(Bucket(key)) : Bucket(key)[b].phrase = p2
    /\ StrictPrefix(p1, p2)
    /\ StartsWith(text, p2)

PhrasesOf(key) == { Bucket(key)[a].phrase : a \in 1..Len(Bucket(key)) }

\* the buckets keyed by one kana
FirstKanaKeys == { key \in DOMAIN COMPOUND_PHRASES : Len(key) = 1 }

\* the buckets the matcher reads at the start position
ConsultedKeys ==
    { segments[start_idx].surface, SubSeq(segments[start_idx].surface, 1, 1) }
      \cap DOMAIN COMPOUND_PHRASES

\* C7 (as stated): if p1 and p2 are in the same first-kana bucket, p1 is a
\* strict prefix of p2 and the surfaces from the start position on begin
\* with p2, the matcher returns p2.
C7_ReturnsP2 ==
    (mpc = "done" /\ start_idx <= Len(segments)) =>
        \A key \in FirstKanaKeys : \A p1, p2 \in PhrasesOf(key) :
            PrefixPairIn(key, p1, p2,
                         Compound(segments, start_idx, Len(segments) + 1))
              => (matched.found /\ matched.phrase = p2)

\* C7 (amended): if p1 and p2 are in a bucket the matcher reads at the start
\* position, p1 is a strict prefix of p2 and the joined surfaces of the
\* first PhraseWindow morphemes from there begin with p2, the matcher
\* returns the longest phrase of the buckets it reads that the window begins
\* with: p2 or a phrase that extends p2, never p1.
C7_ReturnsLongest ==
    (mpc = "done" /\ start_idx <= Len(segments)) =>
        \A key \in ConsultedKeys : \A p1, p2 \in PhrasesOf(key) :
            PrefixPairIn(key, p1, p2, Remaining(segments, start_idx))
              => /\ matched.found
                 /\ StartsWith(matched.phrase, p2)
                 /\ \A k2 \in ConsultedKeys : \A p \in PhrasesOf(k2) :
                        StartsWith(Remaining(segments, start_idx), p)
                          => Len(p) <= Len(matched.phrase)

\* C7 happens: the window begins with p2, which has a strict prefix p1 in
\* the same bucket, and the matcher has returned a phrase longer than p2.
C7_Witness ==
    /\ Matched
    /\ \E key \in ConsultedKeys : \E p1, p2 \in PhrasesOf(key) :
          /\ PrefixPairIn(key, p1, p2, Remaining(segments, start_idx))
          /\ Len(matched.phrase) > Len(p2)

----------------------------------------------------------------------------
(* Properties of the sentence pipelines *)

\* the loop stands at a head
AtHead == ppc = "loop" /\ i <= Len(morphemes)

\* what the matcher returns at the head
HeadMatch == try_match_compound_phrase(morphemes, i)

\* the iteration emits the phrase token, moves past the phrase and groups
\* nothing under the head
PhraseCommitted ==
    /\ tokens' = Append(tokens, PhraseToken(view, HeadMatch))
    /\ i' = i + HeadMatch.consumed
    /\ seen_bases' = seen_bases

C8_DedupPerRequest ==
    /\ \A k, m \in 1..Len(tokens) :
          (k < m /\ tokens[k].pos # "Phrase" /\ tokens[m].pos # "Phrase")
            => tokens[k].base # tokens[m].base
    /\ (ppc = "loop" /\ i = 1) => seen_bases = {}
    /\ \A a, b \in 1..Len(answered) :
          (answered[a].view = answered[b].view /\ answered[a].text = answered[b].text)
            => answered[a].tokens = answered[b].tokens

\* C8 happens: the same text, with a dictionary form that occurs twice, was
\* analysed twice in the same view and answered with tokens both times.
C8_Witness ==
    /\ Len(answered) = 2
    /\ answered[1].view = answered[2].view
    /\ answered[1].text = answered[2].text
    /\ answered[2].tokens # <<>>
    /\ \E k, m \in 1..Len(answered[2].text) :
          /\ k < m
          /\ Main(answered[2].text[k]) = DOUSHI
          /\ answered[2].text[k].dictionary_form = answered[2].text[m].dictionary_form

\* the conjugation engine or the hint generator raised in the latest probe
ProbeRaised == probe \in { "engine raised", "hint raised" }

\* C10: if the conjugation engine or the hint generator raises while a
\* predicate token is deconjugated, the token is emitted without
\* conjugation info and the request goes on; it does not fail.
C10_RaiseIsNoInfo ==
    view \in Views =>
        /\ ppc = "failed" => ~ProbeRaised
        /\ ProbeRaised =>
              /\ tokens # <<>>
              /\ tokens[Len(tokens)].conjugation = "None"
              /\ ppc \in { "loop", "done" }

\* C10 happens: the probe of a predicate raised, its token stands last
\* without conjugation info, and morphemes remain for the loop.
C10_Witness ==
    /\ view \in Views
    /\ ProbeRaised
    /\ ppc = "loop" /\ i <= Len(morphemes)
    /\ tokens # <<>> /\ tokens[Len(tokens)].conjugation = "None"
    /\ tokens[Len(tokens)].word # tokens[Len(tokens)].base


\* C11: if the dictionary lookup of a head morpheme raises, the pipeline
\* still emits that head's token, with an empty meaning, and goes on with
\* the remaining morphemes; the request does not fail.
C11_LookupRaiseIsEmptyMeaning ==
    (view \in Views /\ details = "raised") =>
        /\ ppc \in { "loop", "done" }
        /\ tokens # <<>>

\* the first morpheme is a verb head, no phrase starts on it, and the
\* morphemes after it spell a catalogue phrase
VerbThenPhrase ==
    /\ Len(morphemes) >= 2
    /\ Main(morphemes[1]) = DOUSHI
    /\ ~try_match_compound_phrase(morphemes, 1).found
    /\ try_match_compound_phrase(morphemes, 2).found

\* C14: when a verb head is followed by morphemes that spell a catalogue
\* phrase, the analysis emits the verb token without those morphemes and
\* then the phrase as a token of its own; the grouper does not absorb the
\* phrase's morphemes into the verb.
C14_PhraseAfterVerbIsSeparate ==
    (view = "text" /\ ppc = "done" /\ VerbThenPhrase) =>
        /\ Len(tokens) >= 2
        /\ tokens[1].word = morphemes[1].surface
        /\ tokens[2].pos = "Phrase"
        /\ tokens[2].word = try_match_compound_phrase(morphemes, 2).phrase

\* b is the shorter lemma of the dictionary form D: D[:-2] + ru
ShorterLemma(b, D) ==
    /\ EndsWith(D, <<"re", "ru">>) /\ Len(D) > 2
    /\ b = DropLast(D, 2) \o <<"ru">>

\* sentence analysis emitted a token for the verb head m under the shorter
\* lemma of m's dictionary form
TextRewrote(m) ==
    /\ view = "text" /\ Main(m) = DOUSHI
    /\ \E k \in 1..Len(tokens) :
          /\ tokens[k].pos = DOUSHI
          /\ StartsWith(tokens[k].word, m.surface)
          /\ ShorterLemma(tokens[k].base, m.dictionary_form)

\* single-word analysis of the verb m, without a dictionary form from the
\* caller, answered with the shorter lemma of m's dictionary form
WordRewrote(m) ==
    /\ view = "word" /\ Main(m) = DOUSHI
    /\ morphemes[1] = m
    /\ deep.err \in { "", "lookup", "engine" }
    /\ ShorterLemma(deep.dictionary_form, m.dictionary_form)

\* C16: the ra-nuki normalization rewrites a verb's dictionary form D ending
\* in -reru to D[:-2] + ru only when the dictionary has no entry for D and
\* has one for the shorter lemma; a D with an entry of its own is kept.
C16_RaNukiOnlyWithoutEntry ==
    \A k \in 1..Len(morphemes) :
        (TextRewrote(morphemes[k]) \/ WordRewrote(morphemes[k])) =>
            /\ ~HasDetails(morphemes[k].dictionary_form)
            /\ HasDetails(DropLast(morphemes[k].dictionary_form, 2) \o <<"ru">>)

\* C17: a verb whose dictionary form is in the ra-nuki skip list is never
\* rewritten to the shorter lemma, neither by sentence analysis nor by the
\* single-word deep analysis.
C17_SkipListNeverRewritten ==
    \A k \in 1..Len(morphemes) :
        morphemes[k].dictionary_form \in skip_correction =>
            /\ ~TextRewrote(morphemes[k])
            /\ ~WordRewrote(morphemes[k])

\* the part of C17 that sentence analysis keeps
C17_TextKeepsSkipList ==
    \A k \in 1..Len(morphemes) :
        morphemes[k].dictionary_form \in skip_correction => ~TextRewrote(morphemes[k])

----------------------------------------------------------------------------
(* The dictionary *)

\* W has an entry in the names index whose first translation is typed surname
SurnameInNames(W) ==
    \E entries \in { Get(_index_names_kanji, W), Get(_index_names_kana, W) } :
        \E k \in 1..Len(entries) :
            /\ entries[k].translation # <<>>
            /\ InList("surname", entries[k].translation[1].type)

InGeneralIndex(word) == Get(_index_kanji, word) # <<>> \/ Get(_index_kana, word) # <<>>

\* the latest call was lookup_details on W + san, W a surname of the names
\* index, W + san no headword of the general index
SurnameSanAsked ==
    /\ dpc = "answered" /\ asked.op = "lookup_details"
    /\ EndsWith(asked.word, SAN) /\ Len(asked.word) > Len(SAN)
    /\ SurnameInNames(DropLast(asked.word, Len(SAN)))
    /\ ~InGeneralIndex(asked.word)

\* C12: lookup_details on W + san returns a name entry whose tags include
\* Surname whenever W is in the names index as a surname and W + san is not
\* in the general index.
C12_SurnameSan ==
    SurnameSanAsked => (answer.found /\ { "Name", "Surname" } \subseteq answer.tags)

\* the candidates _find_best_entry chose among in the latest call
Candidates13 == Entries(asked.word, FALSE)

\* the entry has a kana form equal to the requested reading
Exact(entry) == \E k \in 1..Len(entry.kana) : entry.kana[k].text = asked.reading

\* the entry has no such form, but one that equals the reading after
\* voicing normalization
NormalizedOnly(entry) ==
    /\ ~Exact(entry)
    /\ \E k \in 1..Len(entry.kana) :
          _normalize_kana(entry.kana[k].text) = _normalize_kana(asked.reading)

\* the number of kana forms of the entry that equal the reading after
\* voicing normalization
NormalizedForms(entry) ==
    Cardinality({ k \in 1..Len(entry.kana) :
        _normalize_kana(entry.kana[k].text) = _normalize_kana(asked.reading) })

BestEntryAsked ==
    dpc = "answered" /\ asked.op = "_find_best_entry" /\ asked.reading # <<>>

C18_LookupsOnlyRead ==
    [][dpc = "constructed" =>
          UNCHANGED <<_index_kanji, _index_kana, _index_names_kanji,
                      _index_names_kana>>]_vars

\* C18 happens: a lookup was answered None for a word that is no key of the
\* loaded general index, and the word is still no key of it.
C18_Witness ==
    /\ dpc = "answered" /\ asked.op \in LookupOps
    /\ _loaded /\ DOMAIN _index_kanji # {}
    /\ ~answer.found
    /\ asked.word \notin DOMAIN _index_kanji \cup DOMAIN _index_kana

\* C20: if the load of the local dictionary file fails and the download
\* fails too, the construction still completes without raising, is_loaded
\* is false, and every later lookup returns None.
C20_DegradedMode ==
    (general_file.state # "good" /\ dpc \in { "general", "constructed", "raised", "answered" }) =>
        /\ dpc # "raised"
        /\ ~_loaded
        /\ dpc = "answered" => ~answer.found

----------------------------------------------------------------------------
(* The singletons *)

----------------------------------------------------------------------------
(* The hint generator and the class heuristic *)

\* the chain without its Masu
WithoutMasu(chain) == SelectSeq(chain, LAMBDA a : a # "MASU")

\* C22: Masu is a no-op in the hint generator: for a chain that holds Masu
\* the call returns a hint, and it is the hint of the same chain with Masu
\* removed.
C22_MasuIsNoOp ==
    (hpc = "done" /\ InList("MASU", hint_auxiliaries)) =>
        /\ IsOk(hint)
        /\ hint = generate_translation_hint(base_meaning, WithoutMasu(hint_auxiliaries),
                                            hint_conjugation, hint_type2)

\* the words of a negative past hint
NegativePast(h) ==
    StartsWith(h, <<"d", "i", "d", "n", "'", "t", " ">>)
      \/ StartsWith(h, <<"c", "o", "u", "l", "d", "n", "'", "t", " ">>)

\* the gloss as the hint generator starts from it
GlossStem(m) ==
    LET Cut(f) == IF StartsWith(f, <<"t", "o", " ">>) THEN SubSeq(f, 4, Len(f)) ELSE f
    IN  Cut(Strip(UpTo(UpTo(m, ";"), ",")))

\* C23: with terminal Ta the hint is a negative past form only if the chain
\* holds Nai, and for a chain without Nai, Potential, ReruRareru, TeIru and
\* Shimau the hint is the past tense of the gloss, whatever the gloss is.
C23_NegativePastOnlyWithNai ==
    (hpc = "done" /\ hint_conjugation = "TA" /\ IsOk(hint) /\ base_meaning # <<>>) =>
        /\ NegativePast(hint.out) => InList("NAI", hint_auxiliaries)
        /\ hint_auxiliaries = <<>> => hint = make_past_tense(GlossStem(base_meaning))

\* the i-row and the e-row of the kana table
RowKana ==
    { _HIRAGANA_TABLE[b][2] : b \in DOMAIN _HIRAGANA_TABLE }
      \cup { _HIRAGANA_TABLE[b][4] : b \in DOMAIN _HIRAGANA_TABLE }

\* ichidan by the stated rule
IchidanByRule(v) == EndsWith(v, RU) /\ Len(v) >= 2 /\ v[Len(v) - 1] \in RowKana

\* C27: identify_verb_type and the fallback inside conjugate_word both
\* return ichidan exactly for the lemmas that end in ru with an i-row or
\* e-row kana before it, voiced kana included, and godan for every other.
C27_HeuristicsFollowRule ==
    (hpc = "done" /\ guess.segmenter = "raised") =>
        /\ guess.identify_verb_type = IchidanByRule(lemma)
        /\ guess.conjugate_word = IchidanByRule(lemma)

----------------------------------------------------------------------------
(* The sentence loops: what a verb head's group absorbs.                   *)

\* the connective particles can_attach_morpheme lets into a group
AllowedConnectives ==
    { <<"te">>, <<"de">>, <<"ba">>, <<"ta", "ra">>, <<"ta", "ri">>,
      <<"na", "ga", "ra">> }

IsConnective(m) == Main(m) = JOSHI /\ Sub(m) = SETSUZOKUJOSHI

\* the connective particles inside the group of a verb head: positions
\* after the head and before the group's end
AbsorbedConnectives(s) ==
    { k \in (s.from + 1)..(s.to - 1) : IsConnective(morphemes[k]) }

VerbHeadSpans ==
    { n \in 1..Len(spans) : /\ spans[n].emitted = "word"
                            /\ Main(morphemes[spans[n].from]) = DOUSHI }

\* C24: in every sentence view, a connective particle inside a verb head's
\* compound span has one of the surfaces te, de, ba, tara, tari, nagara;
\* any other connective particle ends the span.
C24_OnlyListedConnectives ==
    \A n \in VerbHeadSpans :
        \A k \in AbsorbedConnectives(spans[n]) :
            morphemes[k].surface \in AllowedConnectives

\* an iteration that stays in the loop
Iteration == ppc = "loop" /\ ppc' = "loop"

\* C29: each of the three sentence loops terminates: every iteration moves
\* the position i forward by at least one, no more iterations run than
\* there are morphemes, and the request ends (returned or raised).
C29_LoopsTerminate ==
    /\ [][Iteration => i' >= i + 1]_vars
    /\ [](Len(spans) <= Len(morphemes))
    /\ <>(ppc \in { "done", "failed" })

\* a request over a longer sentence returned after an iteration that
\* took a group of several morphemes and an iteration that emitted nothing
C29_Witness ==
    /\ ppc = "done" /\ Len(morphemes) > LoopMorphemes
    /\ \E n \in 1..Len(spans) : spans[n].to >= spans[n].from + 2
    /\ \E n \in 1..Len(spans) : spans[n].emitted = "none"

\* the iterations that emitted a token, in order
EmittedSpans == SelectSeq(spans, LAMBDA s : s.emitted # "none")

\* C30: in each sentence view every emitted token stands for a contiguous
\* range of positions from .. to - 1, no position is in two of them, and
\* they come in strictly increasing order of their start; an iteration that
\* emits nothing (a filtered morpheme, or a head dropped as already seen)
\* passes over its whole range, so the next range starts where it ends.
C30_SpansPartitionTheText ==
    /\ Len(EmittedSpans) = Len(tokens)
    /\ \A n \in 1..Len(spans) :
          /\ spans[n].from < spans[n].to
          /\ spans[n].to <= Len(morphemes) + 1
          /\ spans[n].from = IF n = 1 THEN 1 ELSE spans[n - 1].to
    /\ \A a, b \in 1..Len(EmittedSpans) :
          a < b => EmittedSpans[a].to <= EmittedSpans[b].from

\* after a token was emitted, a head dropped as already seen had a group
\* of several morphemes and the loop passed over all of them
C30_Witness ==
    \E n \in 1..Len(spans) :
        /\ spans[n].emitted = "none"
        /\ spans[n].to >= spans[n].from + 2
        /\ morphemes[spans[n].from].dictionary_form \in seen_bases
        /\ \E k \in 1..(n - 1) : spans[k].emitted = "word"

\* the suffixes of _NAME_SUFFIXES the word ends in, with something before
Honorifics(word) ==
    { k \in 1..Len(_NAME_SUFFIXES) :
        EndsWith(word, _NAME_SUFFIXES[k]) /\ Len(word) > Len(_NAME_SUFFIXES[k]) }

\* the retry without suffix k found a name entry
RetryHitName(word, is_counter, k) ==
    LET With(found) == found # <<>> /\ found[1].is_name
    IN  With(_find_best_entry(DropLast(word, Len(_NAME_SUFFIXES[k])), <<>>,
                              is_counter, TRUE))

\* the latest call was lookup_details on a word the direct lookup does not
\* find and that ends in a recognized honorific
HonorificAsked ==
    /\ dpc = "answered" /\ asked.op = "lookup_details"
    /\ _find_best_entry(asked.word, asked.reading, asked.is_counter, TRUE) = <<>>
    /\ Honorifics(asked.word) # {}

\* C28: when the direct lookup of w finds no entry and w ends in a
\* recognized honorific, lookup_details returns a result only if the retry
\* without the suffix hit a name entry; a general entry of the stripped word
\* gives none.
C28_RetryReturnsOnlyNames ==
    (HonorificAsked /\ answer.found) =>
        \E k \in Honorifics(asked.word) :
            RetryHitName(asked.word, asked.is_counter, k)
====
